---------------------------- MODULE Spec2Model ----------------------------
(***************************************************************************)
(* The kuuzuki .agentrc plugin (packages/agentrc/src/index.js) as a state  *)
(* machine: the configuration cascade (locate, parse, validate, merge with *)
(* the legacy markdown files) and the hooks the host calls (commands.init, *)
(* event, tool.execute.before, tool.execute.after).                        *)
(*                                                                         *)
(* A text is a sequence of one-character strings, so that startsWith,      *)
(* endsWith, includes, split and replace are computed as JavaScript        *)
(* computes them.  A long fixed text of the source that no test of the     *)
(* code looks into (a title, a default rule) is written as one symbol      *)
(* "<...>": it is copied and compared as a whole and it contains none of   *)
(* the patterns the code searches for.  Emoji of titles are left out.      *)
(***************************************************************************)
EXTENDS Integers, Sequences, FiniteSets, TLC

VARIABLES
    phase,          \* "boot" before KuuzukiAgentrcPlugin has run, then "running"
    files,          \* the three .agentrc locations: location -> file
    legacyFiles,    \* AGENTS.md, CLAUDE.md, .cursorrules, copilot-instructions.md
    projectDir,     \* what analyzeProject finds in app.path.root
    agentrcConfig,  \* the closure variable agentrcConfig (JNull or an object)
    configPath,     \* the closure variable configPath (a location or "null")
    input,          \* the hook invocation last made: hook, tool, arguments given
    output,         \* the host's mutable output descriptor of that invocation
    effect,         \* what the last handler did: thrown error, logger calls,
                    \* locations read, files written
    calls,          \* number of hook invocations made so far
    startup,        \* what KuuzukiAgentrcPlugin loaded: primary and legacy
    fnCall          \* a pure function applied on its own: its inputs and result

vars == <<phase, files, legacyFiles, projectDir, agentrcConfig, configPath,
          input, output, effect, calls, startup, fnCall>>

---------------------------------------------------------------------------
(* Bounds of the model *)

\* hook invocations in one session
MaxCalls == 3

---------------------------------------------------------------------------
(* Texts: String.prototype methods used by the source *)

Min(S) == CHOOSE x \in S : \A y \in S : x <= y

\* s.indexOf(p), 1-based; 0 when p does not occur (JavaScript's -1)
IndexOf(s, p) ==
    LET hits == {i \in 1..(Len(s) - Len(p) + 1) : SubSeq(s, i, i + Len(p) - 1) = p}
    IN  IF hits = {} THEN 0 ELSE Min(hits)

Includes(s, p) == IndexOf(s, p) # 0

StartsWith(s, p) == Len(s) >= Len(p) /\ SubSeq(s, 1, Len(p)) = p

EndsWith(s, p) == Len(s) >= Len(p) /\ SubSeq(s, Len(s) - Len(p) + 1, Len(s)) = p

\* s.replace(p, r) with a string pattern: the first occurrence only
ReplaceFirst(s, p, r) ==
    LET i == IndexOf(s, p)
    IN  IF i = 0 THEN s
        ELSE SubSeq(s, 1, i - 1) \o r \o SubSeq(s, i + Len(p), Len(s))

\* s.replace(/['"]/g, ""): every quote character removed
RemoveQuotes(s) == SelectSeq(s, LAMBDA c : c \notin {"'", "\""})

LowerChar(c) ==
    CASE c = "P" -> "p" [] c = "R" -> "r" [] c = "O" -> "o" [] c = "T" -> "t"
      [] c = "E" -> "e" [] c = "C" -> "c" [] c = "N" -> "n" [] c = "V" -> "v"
      [] c = "X" -> "x" [] c = "A" -> "a" [] c = "B" -> "b"
      [] OTHER -> c

\* s.toLowerCase()
ToLowerCase(s) == [i \in 1..Len(s) |-> LowerChar(s[i])]

\* s.split(sep) for a one-character separator: "a  b" gives "a", "", "b"
RECURSIVE Split(_, _)
Split(s, sep) ==
    LET i == IndexOf(s, <<sep>>)
    IN  IF i = 0 THEN <<s>>
        ELSE <<SubSeq(s, 1, i - 1)>> \o Split(SubSeq(s, i + 1, Len(s)), sep)

\* the backtick character (SANY does not read one inside a string)
Backtick == "<backtick>"

\* s.match(/BT([^BT]+)BT/), BT the backtick: the first backtick followed by one or
\* more characters that are not backticks and then a backtick; the capture,
\* or NoMatch for null
NoMatch == <<"<null>">>

\* null where the other values are texts (analysis.framework and the like)
NullText == <<"<null>">>

MatchBackticks(s) ==
    LET opens == {i \in 1..Len(s) :
                     /\ s[i] = Backtick
                     /\ i + 1 <= Len(s) /\ s[i + 1] # Backtick
                     /\ \E j \in (i + 2)..Len(s) : s[j] = Backtick}
    IN  IF opens = {} THEN NoMatch
        ELSE LET i == Min(opens)
                 j == Min({k \in (i + 2)..Len(s) : s[k] = Backtick})
             IN  SubSeq(s, i + 1, j - 1)

---------------------------------------------------------------------------
(* JavaScript values and files *)

\* null, and the values JSON.parse can return
JNull == [t |-> "null"]
JNumber == [t |-> "number"]
JString == [t |-> "string"]
JBoolean == [t |-> "boolean"]
JArray == [t |-> "array"]
\* an object: o maps the keys it has to their values
JObj(o) == [t |-> "object", o |-> o]

EmptyObject == [k \in {} |-> <<>>]

Has(o, k) == k \in DOMAIN o

\* a || {} for a key of an object
KeyOrEmpty(o, k) == IF Has(o, k) THEN o[k] ELSE EmptyObject

\* { ...a, ...b }: the keys of b override those of a
Spread(a, b) == b @@ a

\* a file: missing, or holding a text that is JSON for a value or is not JSON
NoFile == [kind |-> "missing"]
TextFile(text) == [kind |-> "file", text |-> text]
NotJson == [syntax |-> "invalid"]

\* JSON.stringify(v, null, 2) of a value made of objects, arrays and strings
JSONstringify(v) == [syntax |-> "json", value |-> v]

\* JSON.parse(text): [ok |-> FALSE] stands for the SyntaxError thrown
JSONparse(text) ==
    IF text.syntax = "json" THEN [ok |-> TRUE, value |-> text.value]
    ELSE [ok |-> FALSE]

\* typeof config !== 'object' || config === null: typeof is 'object' for an
\* object and for an array; TRUE stands for returning config, FALSE for the throw
validateAgentrcConfig(config) == config.t \in {"object", "array"}

---------------------------------------------------------------------------
(* loadAgentrcConfig *)

\* the locations array, in the order the loop visits it
locations == <<"root", "global", "home">>

\* the loop from position i on; consulted collects the locations read
RECURSIVE loadFrom(_, _, _)
loadFrom(fs, i, consulted) ==
    IF i > Len(locations)
    THEN [config |-> JNull, path |-> "null", consulted |-> consulted]
    ELSE LET loc == locations[i]
             seen == consulted \cup {loc}
             parsed == IF fs[loc].kind = "file" THEN JSONparse(fs[loc].text)
                       ELSE [ok |-> FALSE]
         IN  IF parsed.ok /\ validateAgentrcConfig(parsed.value)
             THEN [config |-> parsed.value, path |-> loc, consulted |-> seen]
             ELSE loadFrom(fs, i + 1, seen)

\* the last location that loads wins
loadAgentrcConfigLastWins(fs) ==
    LET ok == {i \in 1..Len(locations) : loadFrom(fs, i, {}).path = locations[i]}
    IN  IF ok = {} THEN loadFrom(fs, 1, {})
        ELSE loadFrom(fs, CHOOSE i \in ok : \A j \in ok : j <= i, {})

loadAgentrcConfig(fs) == loadFrom(fs, 1, {})

---------------------------------------------------------------------------
(* loadLegacyConfigs *)

\* the legacyFiles array: file and type, in the order the loop visits it
legacyFileList ==
    << [path |-> "AGENTS.md", type |-> "agents"],
       [path |-> "CLAUDE.md", type |-> "claude"],
       [path |-> ".cursorrules", type |-> "cursor"],
       [path |-> "copilot-instructions.md", type |-> "copilot"] >>

T_test == <<"t", "e", "s", "t">>
T_build == <<"b", "u", "i", "l", "d">>
T_lint == <<"l", "i", "n", "t">>
T_npm == <<"n", "p", "m">>
T_bun == <<"b", "u", "n">>
T_yarn == <<"y", "a", "r", "n">>

\* cmd.includes(word): legacyConfig.commands[key] = cmd, an assignment
assignCommand(commands, key, word, cmd) ==
    IF Includes(cmd, word) THEN (key :> cmd) @@ commands ELSE commands

\* a rule already captured is not captured again
scanLineDeduplicating(acc, line) ==
    LET rule == SubSeq(line, 3, Len(line))
        named == \/ Includes(line, <<Backtick>> \o T_npm \o <<" ">>)
                 \/ Includes(line, <<Backtick>> \o T_bun \o <<" ">>)
                 \/ Includes(line, <<Backtick>> \o T_yarn \o <<" ">>)
        cmd == MatchBackticks(line)
    IN  [rules |-> IF /\ StartsWith(line, <<"-", " ">>) /\ Includes(line, <<":">>)
                      /\ \A i \in DOMAIN acc.rules : acc.rules[i] # rule
                   THEN Append(acc.rules, rule)
                   ELSE acc.rules,
         commands |-> IF named /\ cmd # NoMatch
                      THEN assignCommand(assignCommand(assignCommand(acc.commands,
                               "test", T_test, cmd), "build", T_build, cmd),
                               "lint", T_lint, cmd)
                      ELSE acc.commands]

\* the body of lines.forEach for one line; acc is legacyConfig so far
scanLine(acc, line) ==
    LET rules == IF StartsWith(line, <<"-", " ">>) /\ Includes(line, <<":">>)
                 THEN Append(acc.rules, SubSeq(line, 3, Len(line)))
                 ELSE acc.rules
        named == \/ Includes(line, <<Backtick>> \o T_npm \o <<" ">>)
                 \/ Includes(line, <<Backtick>> \o T_bun \o <<" ">>)
                 \/ Includes(line, <<Backtick>> \o T_yarn \o <<" ">>)
        cmd == MatchBackticks(line)
        c1 == assignCommand(acc.commands, "test", T_test, cmd)
        c2 == assignCommand(c1, "build", T_build, cmd)
        c3 == assignCommand(c2, "lint", T_lint, cmd)
    IN  [rules |-> rules,
         commands |-> IF named /\ cmd # NoMatch THEN c3 ELSE acc.commands]

RECURSIVE scanLines(_, _)
scanLines(acc, lines) ==
    IF lines = <<>> THEN acc
    ELSE scanLines(scanLine(acc, Head(lines)), Tail(lines))

\* the loop over legacyFiles from position i on
RECURSIVE scanLegacyFiles(_, _, _)
scanLegacyFiles(lf, i, acc) ==
    IF i > Len(legacyFileList) THEN acc
    ELSE LET f == legacyFileList[i]
         IN  IF lf[f.path].kind = "file" /\ f.type \in {"agents", "claude"}
             THEN scanLegacyFiles(lf, i + 1,
                                  scanLines(acc, Split(lf[f.path].text, "\n")))
             ELSE scanLegacyFiles(lf, i + 1, acc)

loadLegacyConfigs(lf) ==
    LET found == scanLegacyFiles(lf, 1, [rules |-> <<>>, commands |-> EmptyObject])
    IN  IF Len(found.rules) > 0 \/ DOMAIN found.commands # {}
        THEN JObj(("rules" :> found.rules) @@ ("commands" :> found.commands)
                  @@ ("project" :> EmptyObject))
        ELSE JNull

---------------------------------------------------------------------------
(* mergeConfigs *)

\* Array.isArray(c.rules) ? c.rules : []  (rules, when present, is an array here)
RulesOrEmpty(o) == IF Has(o, "rules") THEN o["rules"] ELSE <<>>

\* primary's rules first
mergedObjectRulesPrimaryFirst(P, L) ==
    ("commands" :> Spread(KeyOrEmpty(L, "commands"), KeyOrEmpty(P, "commands")))
    @@ ("rules" :> RulesOrEmpty(P) \o RulesOrEmpty(L))
    @@ ("project" :> Spread(KeyOrEmpty(L, "project"), KeyOrEmpty(P, "project")))
    @@ P

\* legacy's commands and project entries override the primary's
mergedObjectLegacyWins(P, L) ==
    ("commands" :> Spread(KeyOrEmpty(P, "commands"), KeyOrEmpty(L, "commands")))
    @@ ("rules" :> RulesOrEmpty(L) \o RulesOrEmpty(P))
    @@ ("project" :> Spread(KeyOrEmpty(P, "project"), KeyOrEmpty(L, "project")))
    @@ P

\* the object literal returned when both configurations are present
mergedObject(P, L) ==
    ("commands" :> Spread(KeyOrEmpty(L, "commands"), KeyOrEmpty(P, "commands")))
    @@ ("rules" :> RulesOrEmpty(L) \o RulesOrEmpty(P))
    @@ ("project" :> Spread(KeyOrEmpty(L, "project"), KeyOrEmpty(P, "project")))
    @@ P

mergeConfigs(primary, legacy) ==
    IF primary = JNull /\ legacy = JNull THEN JNull
    ELSE IF primary = JNull THEN legacy
    ELSE IF legacy = JNull THEN primary
    ELSE JObj(mergedObject(primary.o, legacy.o))

---------------------------------------------------------------------------
(* analyzeProject and createDefaultAgentrc *)

T_pnpm == <<"p", "n", "p", "m">>
T_cargo == <<"c", "a", "r", "g", "o">>
T_go == <<"g", "o">>
T_pip == <<"p", "i", "p">>
T_react == <<"r", "e", "a", "c", "t">>
T_vue == <<"v", "u", "e">>
T_next == <<"n", "e", "x", "t">>
T_express == <<"e", "x", "p", "r", "e", "s", "s">>
T_jest == <<"j", "e", "s", "t">>
T_vitest == <<"v", "i", "t", "e", "s", "t">>
T_mocha == <<"m", "o", "c", "h", "a">>
T_vite == <<"v", "i", "t", "e">>
T_webpack == <<"w", "e", "b", "p", "a", "c", "k">>
T_typescript == <<"t", "y", "p", "e", "s", "c", "r", "i", "p", "t">>
T_javascript == <<"j", "a", "v", "a", "s", "c", "r", "i", "p", "t">>
T_rust == <<"r", "u", "s", "t">>
T_python == <<"p", "y", "t", "h", "o", "n">>
T_run == <<" ", "r", "u", "n", " ">>
T_dev == <<"d", "e", "v">>
T_start == <<"s", "t", "a", "r", "t">>
T_typecheck == <<"t", "y", "p", "e", "c", "h", "e", "c", "k">>
T_type_check == <<"t", "y", "p", "e", "-", "c", "h", "e", "c", "k">>

\* array.includes(x)
Contains(seq, x) == \E i \in 1..Len(seq) : seq[i] = x

\* array.slice(0, n)
SliceTo(seq, n) == SubSeq(seq, 1, IF Len(seq) < n THEN Len(seq) ELSE n)

\* a key whose value is a non-empty text: truthy
Truthy(o, k) == Has(o, k) /\ o[k] # <<>>

\* fs.access(path.join(projectPath, f)).then(() => true).catch(() => false)
Exists(pd, f) == f \in pd.present

\* the analysis object as first built
initialAnalysis ==
    [type |-> <<"<opencode-project>">>, language |-> T_javascript,
     framework |-> NullText, packageManager |-> T_npm,
     testFramework |-> NullText, buildTool |-> NullText,
     hasTypescript |-> FALSE, commands |-> EmptyObject,
     dependencies |-> <<>>, devDependencies |-> <<>>]

\* the catch branch, applied to the analysis as the try block left it
otherProjectTypes(pd, a) ==
    IF Exists(pd, "Cargo.toml")
    THEN [a EXCEPT !.type = <<"<rust-project>">>, !.language = T_rust,
                   !.packageManager = T_cargo]
    ELSE IF Exists(pd, "go.mod")
    THEN [a EXCEPT !.type = <<"<go-project>">>, !.language = T_go,
                   !.packageManager = T_go]
    ELSE IF Exists(pd, "requirements.txt")
    THEN [a EXCEPT !.type = <<"<python-project>">>, !.language = T_python,
                   !.packageManager = T_pip]
    ELSE a

\* the try block for a package.json that parsed to the object o
nodeAnalysis(pd, o) ==
    LET deps == IF Has(o, "dependencies") THEN o["dependencies"] ELSE <<>>
        devs == IF Has(o, "devDependencies") THEN o["devDependencies"] ELSE <<>>
        uses(x) == Contains(deps, x) \/ Contains(devs, x)
        ts == uses(T_typescript) \/ Exists(pd, "tsconfig.json")
        fw == IF uses(T_react) THEN <<T_react, <<"<react-project>">> >>
              ELSE IF uses(T_vue) THEN <<T_vue, <<"<vue-project>">> >>
              ELSE IF uses(T_next) THEN <<T_next, <<"<nextjs-project>">> >>
              ELSE IF uses(T_express) THEN <<T_express, <<"<express-project>">> >>
              ELSE <<NullText, <<"<node-project>">> >>
    IN  [type |-> fw[2],
         language |-> IF ts THEN T_typescript ELSE T_javascript,
         framework |-> fw[1],
         packageManager |->
             IF Exists(pd, "bun.lockb") THEN T_bun
             ELSE IF Exists(pd, "yarn.lock") THEN T_yarn
             ELSE IF Exists(pd, "pnpm-lock.yaml") THEN T_pnpm
             ELSE T_bun,
         testFramework |->
             IF uses(T_jest) THEN T_jest
             ELSE IF uses(T_vitest) THEN T_vitest
             ELSE IF uses(T_mocha) THEN T_mocha
             ELSE NullText,
         buildTool |->
             IF uses(T_vite) THEN T_vite
             ELSE IF uses(T_webpack) THEN T_webpack
             ELSE NullText,
         hasTypescript |-> ts,
         commands |-> KeyOrEmpty(o, "scripts"),
         dependencies |-> deps,
         devDependencies |-> devs]

\* package.json missing or not JSON: the catch branch on the initial analysis.
\* package.json holding null: analysis.type is assigned before
\* packageJson.scripts throws, and the catch branch keeps it.
\* Any other value that is not an object reads as an object without keys.
analyzeProject(pd) ==
    LET pj == IF pd.packageJson.kind = "file" THEN JSONparse(pd.packageJson.text)
              ELSE [ok |-> FALSE]
    IN  IF ~pj.ok THEN otherProjectTypes(pd, initialAnalysis)
        ELSE IF pj.value.t = "null"
        THEN otherProjectTypes(pd, [initialAnalysis EXCEPT !.type = <<"<node-project>">>])
        ELSE nodeAnalysis(pd, IF pj.value.t = "object" THEN pj.value.o ELSE EmptyObject)

UpperChar(c) ==
    CASE c = "r" -> "R" [] c = "v" -> "V" [] c = "n" -> "N" [] c = "e" -> "E"
      [] OTHER -> c

\* the commands of the default configuration
defaultCommands(a) ==
    LET pm == a.packageManager
        sc == a.commands
        build == IF Truthy(sc, "build") THEN pm \o T_run \o T_build
                 ELSE IF a.type = <<"<rust-project>">> THEN T_cargo \o <<" ">> \o T_build
                 ELSE IF a.type = <<"<go-project>">> THEN T_go \o <<" ">> \o T_build
                 ELSE pm \o T_run \o T_build
        test == IF Truthy(sc, "test") THEN pm \o <<" ">> \o T_test
                ELSE IF a.type = <<"<rust-project>">> THEN T_cargo \o <<" ">> \o T_test
                ELSE IF a.type = <<"<go-project>">> THEN T_go \o <<" ">> \o T_test
                ELSE pm \o <<" ">> \o T_test
    IN  ("build" :> build) @@ ("test" :> test)
        @@ (IF Truthy(sc, "dev") THEN "dev" :> (pm \o T_run \o T_dev) ELSE EmptyObject)
        @@ (IF Truthy(sc, "start") THEN "start" :> (pm \o <<" ">> \o T_start)
            ELSE EmptyObject)
        @@ (IF Truthy(sc, "lint") THEN "lint" :> (pm \o T_run \o T_lint) ELSE EmptyObject)
        @@ (IF Truthy(sc, "type-check") \/ Truthy(sc, "typecheck")
            THEN "typecheck" :> (pm \o T_run \o (IF Truthy(sc, "typecheck") THEN T_typecheck
                                                 ELSE T_type_check))
            ELSE EmptyObject)

\* the rules of the default configuration
defaultRules(a) ==
    << <<"<Always use JavaScript/Bun - avoid TypeScript unless absolutely necessary>">>,
       <<"<Use functional programming paradigms combined with OOP when appropriate>">>,
       <<"<Apply DRY (Don't Repeat Yourself) methodology rigorously>">>,
       <<"<Use descriptive, functional names for variables, functions, and classes>">>,
       <<"<Follow existing code style and patterns>">> >>
    \o (IF a.framework = T_react
        THEN << <<"<Prefer functional components with hooks over class components>">>,
                <<"<Use custom hooks to extract and reuse stateful logic>">>,
                <<"<Implement pure functions for data transformations>">> >>
        ELSE <<>>)
    \o (IF a.hasTypescript
        THEN << <<"<Consider migrating TypeScript to JavaScript + JSDoc for type documentation>">>,
                <<"<If TypeScript is required, use it minimally with focus on interfaces>">> >>
        ELSE << <<"<Use JSDoc comments for type documentation instead of TypeScript>">> >>)
    \o (IF a.testFramework # NullText
        THEN << <<"<Write functional tests using >">> \o a.testFramework
                \o <<"< - test behavior, not implementation>">> >>
        ELSE << <<"<Write tests for new functionality using functional testing approaches>">> >>)
    \o << <<"<Prefer pure functions - avoid side effects where possible>">>,
          <<"<Use higher-order functions for code reuse and composition>">>,
          <<"<When using classes, keep them focused with single responsibility>">>,
          <<"<Favor composition over inheritance>">>,
          <<"<Use semantic commit messages>">>,
          <<"<Prefer async/await over Promise.then() for readable async code>">> >>

\* the config object createDefaultAgentrc builds from projectName and analysis
defaultConfig(projectName, a) ==
    LET testing == IF a.testFramework # NullText THEN "testing" :> a.testFramework
                   ELSE EmptyObject
        bundler == IF a.buildTool # NullText THEN "bundler" :> a.buildTool
                   ELSE EmptyObject
    IN  ("project" :>
            (("name" :> projectName) @@ ("type" :> a.type)
             @@ ("description" :>
                    (IF a.framework # NullText
                     THEN <<UpperChar(Head(a.framework))>> \o Tail(a.framework)
                     ELSE <<"<Project>">>)
                    \o <<"< enhanced with kuuzuki .agentrc support>">>)
             @@ ("language" :> a.language) @@ ("framework" :> a.framework)))
        @@ ("commands" :> defaultCommands(a))
        @@ ("codeStyle" :>
               (("language" :> T_javascript)
                @@ ("paradigm" :> <<"<functional-oop-hybrid>">>)
                @@ ("methodology" :> <<"<DRY>">>)
                @@ ("naming" :> <<"<functional-descriptive>">>)
                @@ ("runtime" :> T_bun)
                @@ testing @@ bundler
                @@ (IF a.hasTypescript
                    THEN ("typescript" :> <<"<discouraged>">>)
                         @@ ("alternative" :> <<"<jsdoc>">>)
                    ELSE EmptyObject)))
        @@ ("rules" :> defaultRules(a))
        @@ ("tools" :> (("packageManager" :> a.packageManager) @@ testing @@ bundler))
        @@ ("dependencies" :>
               (("critical" :> SliceTo(a.dependencies, 5))
                @@ (IF Len(a.devDependencies) > 0
                    THEN "dev" :> SliceTo(a.devDependencies, 3)
                    ELSE EmptyObject)))
        @@ ("metadata" :>
               (("version" :> <<"<1.0.0>">>)
                @@ ("generator" :> <<"<kuuzuki-opencode-plugin>">>)
                @@ ("created" :> <<"<new Date().toISOString()>">>)
                @@ ("analyzed" :> <<"<true>">>)))

\* the config object createDefaultAgentrc builds, writes and returns
defaultAgentrc(pd) == defaultConfig(pd.name, analyzeProject(pd))

---------------------------------------------------------------------------
(* handleMemoryCommand *)

NoError == <<"<no error>">>
Undefined == <<"<undefined>">>

Digits == <<"0", "1", "2", "3", "4", "5", "6", "7", "8", "9">>
IsDigit(c) == Contains(Digits, c)
DigitValue(c) == (CHOOSE i \in 1..10 : Digits[i] = c) - 1

RECURSIVE DecimalValue(_)
DecimalValue(s) ==
    IF s = <<>> THEN 0
    ELSE 10 * DecimalValue(SubSeq(s, 1, Len(s) - 1)) + DigitValue(s[Len(s)])

AllDigits(s) == s # <<>> /\ \A i \in 1..Len(s) : IsDigit(s[i])

\* a ruleId as the handler receives it: a number (the memory tool's argument)
\* or a text (the shell form)
JsNumber(n) == [type |-> "number", n |-> n]
JsString(s) == [type |-> "string", s |-> s]

\* ToIntegerOrInfinity of a ruleId: a number is itself; a text is read as a
\* decimal number, and as NaN, hence 0, when it is not one
ToInteger(v) ==
    IF v.type = "number" THEN v.n
    ELSE IF AllDigits(v.s) THEN DecimalValue(v.s)
    ELSE IF Len(v.s) > 1 /\ v.s[1] = "-" /\ AllDigits(Tail(v.s))
    THEN 0 - DecimalValue(Tail(v.s))
    ELSE 0

\* array[ruleId]: a number, or the text that is the canonical form of a number,
\* inside the array selects an element; anything else reads undefined
ElementAt(array, v) ==
    LET n == ToInteger(v)
        indexes == IF v.type = "number" THEN TRUE
                   ELSE AllDigits(v.s) /\ (Len(v.s) = 1 \/ v.s[1] # "0")
    IN  IF indexes /\ 0 <= n /\ n < Len(array) THEN array[n + 1] ELSE Undefined

RemoveAt(array, k) == SubSeq(array, 1, k) \o SubSeq(array, k + 2, Len(array))

\* removes the last element whatever the index
SpliceLast(array, v) == SubSeq(array, 1, Len(array) - 1)

\* array.splice(ruleId, 1): a negative start counts from the end, a start past
\* the end removes nothing
SpliceOne(array, v) ==
    LET n == ToInteger(v)
        start == IF n < 0 THEN (IF Len(array) + n < 0 THEN 0 ELSE Len(array) + n)
                 ELSE (IF n > Len(array) THEN Len(array) ELSE n)
    IN  IF start < Len(array) THEN RemoveAt(array, start) ELSE array

\* the snapshot that action "list" serialises
listSnapshot(config) ==
    LET o == IF config.t = "object" THEN config.o ELSE EmptyObject
    IN  JObj(("rules" :> RulesOrEmpty(o)) @@ ("commands" :> KeyOrEmpty(o, "commands"))
             @@ ("project" :> KeyOrEmpty(o, "project")))

memoryHelp ==
    [title |-> <<"<Kuuzuki Memory Tool>">>,
     output |-> <<"<Available actions: list, add, remove ...>">>]

\* what a call leaves behind: the error thrown (or NoError), the result
\* returned, the config object after the call, and the text written to
\* configPath when fs.writeFile was called (written: it was called)
MemoryOutcome(thrown, result, config, written) ==
    [thrown |-> thrown, result |-> result, config |-> config, written |-> written]

\* config.rules.unshift(rule) in place of push
memoryAddFirst(args, config, path, writeOk) ==
    IF ~Truthy(args, "rule")
    THEN MemoryOutcome(<<"<Rule text required>">>, memoryHelp, config, FALSE)
    ELSE IF config.t = "null"
    THEN MemoryOutcome(<<"<No .agentrc config found>">>, memoryHelp, config, FALSE)
    ELSE IF path # "null" /\ ~writeOk
    THEN MemoryOutcome(<<"<fs.writeFile failed>">>, memoryHelp,
             JObj(("rules" :> <<args["rule"]>> \o RulesOrEmpty(config.o)) @@ config.o),
             TRUE)
    ELSE MemoryOutcome(NoError,
             [title |-> <<"<Rule Added>">>, output |-> <<"<Added rule: >">> \o args["rule"]],
             JObj(("rules" :> <<args["rule"]>> \o RulesOrEmpty(config.o)) @@ config.o),
             path # "null")

\* a write that fails leaves the rules as they were
memoryAddRollsBack(args, config, path, writeOk) ==
    IF ~Truthy(args, "rule")
    THEN MemoryOutcome(<<"<Rule text required>">>, memoryHelp, config, FALSE)
    ELSE IF config.t = "null"
    THEN MemoryOutcome(<<"<No .agentrc config found>">>, memoryHelp, config, FALSE)
    ELSE IF path # "null" /\ ~writeOk
    THEN MemoryOutcome(<<"<fs.writeFile failed>">>, memoryHelp, config, TRUE)
    ELSE MemoryOutcome(NoError,
             [title |-> <<"<Rule Added>">>, output |-> <<"<Added rule: >">> \o args["rule"]],
             JObj(("rules" :> Append(RulesOrEmpty(config.o), args["rule"])) @@ config.o),
             path # "null")

\* the configuration is looked at before the rule text
memoryAddConfigFirst(args, config, path, writeOk) ==
    IF config.t = "null"
    THEN MemoryOutcome(<<"<No .agentrc config found>">>, memoryHelp, config, FALSE)
    ELSE IF ~Truthy(args, "rule")
    THEN MemoryOutcome(<<"<Rule text required>">>, memoryHelp, config, FALSE)
    ELSE IF path # "null" /\ ~writeOk
    THEN MemoryOutcome(<<"<fs.writeFile failed>">>, memoryHelp,
             JObj(("rules" :> Append(RulesOrEmpty(config.o), args["rule"])) @@ config.o),
             TRUE)
    ELSE MemoryOutcome(NoError,
             [title |-> <<"<Rule Added>">>, output |-> <<"<Added rule: >">> \o args["rule"]],
             JObj(("rules" :> Append(RulesOrEmpty(config.o), args["rule"])) @@ config.o),
             path # "null")

\* case "add"
memoryAdd(args, config, path, writeOk) ==
    IF ~Truthy(args, "rule")
    THEN MemoryOutcome(<<"<Rule text required>">>, memoryHelp, config, FALSE)
    ELSE IF config.t = "null"
    THEN MemoryOutcome(<<"<No .agentrc config found>">>, memoryHelp, config, FALSE)
    ELSE LET after == JObj(("rules" :> Append(RulesOrEmpty(config.o), args["rule"]))
                           @@ config.o)
         IN  IF path # "null" /\ ~writeOk
             THEN MemoryOutcome(<<"<fs.writeFile failed>">>, memoryHelp, after, TRUE)
             ELSE MemoryOutcome(NoError,
                      [title |-> <<"<Rule Added>">>,
                       output |-> <<"<Added rule: >">> \o args["rule"]],
                      after, path # "null")

\* case "remove"
memoryRemove(args, config, path, writeOk) ==
    IF ~Has(args, "ruleId")
    THEN MemoryOutcome(<<"<Rule ID required>">>, memoryHelp, config, FALSE)
    ELSE IF config.t = "null" \/ ~Has(config.o, "rules")
    THEN MemoryOutcome(<<"<No rules found>">>, memoryHelp, config, FALSE)
    ELSE LET removedRule == ElementAt(config.o["rules"], args["ruleId"])
             after == JObj(("rules" :> SpliceOne(config.o["rules"], args["ruleId"]))
                           @@ config.o)
         IN  IF path # "null" /\ ~writeOk
             THEN MemoryOutcome(<<"<fs.writeFile failed>">>, memoryHelp, after, TRUE)
             ELSE MemoryOutcome(NoError,
                      [title |-> <<"<Rule Removed>">>,
                       output |-> <<"<Removed rule: >">> \o removedRule],
                      after, path # "null")

T_list == <<"l", "i", "s", "t">>
T_add == <<"a", "d", "d">>
T_remove == <<"r", "e", "m", "o", "v", "e">>

\* writeOk: whether fs.writeFile, if called, succeeds
handleMemoryCommand(args, config, path, writeOk) ==
    LET action == IF Has(args, "action") THEN args["action"] ELSE Undefined
    IN  IF action = T_list
        THEN MemoryOutcome(NoError,
                 [title |-> <<"<Project Rules>">>,
                  output |-> JSONstringify(listSnapshot(config))],
                 config, FALSE)
        ELSE IF action = T_add THEN memoryAdd(args, config, path, writeOk)
        ELSE IF action = T_remove THEN memoryRemove(args, config, path, writeOk)
        ELSE MemoryOutcome(NoError, memoryHelp, config, FALSE)

---------------------------------------------------------------------------
(* tool.execute.before *)

T_AGENTS_md == <<"A", "G", "E", "N", "T", "S", ".", "m", "d">>
T_agentrc == <<".", "a", "g", "e", "n", "t", "r", "c">>
T_slash_init == <<"/", "i", "n", "i", "t">>
T_memory_ == <<"m", "e", "m", "o", "r", "y", " ">>
T_action == <<"a", "c", "t", "i", "o", "n">>
T_rule == <<"r", "u", "l", "e">>
T_ruleId == <<"r", "u", "l", "e", "I", "d">>
T_npm_test == T_npm \o <<" ">> \o T_test
T_npm_run_build == T_npm \o T_run \o T_build
T_npm_run_dev == T_npm \o T_run \o T_dev
T_dot_env == <<".", "e", "n", "v">>
T_star_env == <<"*">> \o T_dot_env
T_protect_env == <<"p", "r", "o", "t", "e", "c", "t", " ">> \o T_dot_env

AgentsMdMarker == <<"\n", "\n", "<!-- This project also has .agentrc support via kuuzuki plugin -->">>

alreadyInitialized ==
    [title |-> <<"<Kuuzuki Project Already Initialized>">>,
     output |-> <<"<.agentrc file already exists in this project>">>]

\* the success response: it names config.project.name
initialized(config) ==
    [title |-> <<"<Kuuzuki Project Initialized>">>,
     output |-> <<"<Created .agentrc configuration for \">">> \o config["project"]["name"]
                \o <<"<\" Next steps: ...>">>]

\* one part of the shell form: [key, value] = part.split("="); a part with
\* key and value sets args[key] to the value without its quote characters;
\* only action, rule and ruleId are read from args afterwards
parsePart(args, part) ==
    LET kv == Split(part, "=")
        key == kv[1]
        value == IF Len(kv) >= 2 THEN kv[2] ELSE <<>>
    IN  IF key # <<>> /\ value # <<>>
        THEN (IF key = T_action THEN "action" :> RemoveQuotes(value)
              ELSE IF key = T_rule THEN "rule" :> RemoveQuotes(value)
              ELSE IF key = T_ruleId THEN "ruleId" :> JsString(RemoveQuotes(value))
              ELSE EmptyObject) @@ args
        ELSE args

RECURSIVE parseParts(_, _)
parseParts(args, parts) ==
    IF parts = <<>> THEN args
    ELSE parseParts(parsePart(args, Head(parts)), Tail(parts))

\* the arguments parsed from a shell command that starts with "memory "
parseMemoryCommand(command) ==
    parseParts(EmptyObject, Split(ReplaceFirst(command, T_memory_, <<>>), " "))

\* the tests of the command-mapping block, in the order of the source
mappingSteps ==
    << [equals |-> T_npm_test, key |-> "test", log |-> "success"],
       [equals |-> T_npm_run_build, key |-> "build", log |-> "success"],
       [includes |-> T_lint, key |-> "lint", log |-> "success"],
       [equals |-> T_npm_run_dev, key |-> "dev", log |-> "success"],
       [equals |-> T_npm_run_build, key |-> "build", log |-> "config"],
       [includes |-> T_lint, key |-> "lint", log |-> "config"],
       [equals |-> T_npm_run_dev, key |-> "dev", log |-> "config"] >>

\* whether a step's test holds of the command (always the original one)
stepApplies(step, command, commands) ==
    /\ IF "equals" \in DOMAIN step THEN command = step.equals
       ELSE Includes(command, step.includes)
    /\ Truthy(commands, step.key)

RECURSIVE mapFrom(_, _, _, _)
\* each test reads output.args.command as rewritten so far
mapFromChained(i, command, commands, acc) ==
    IF i > Len(mappingSteps) THEN acc
    ELSE IF stepApplies(mappingSteps[i], acc.command, commands)
    THEN mapFrom(i + 1, command, commands,
                 [command |-> commands[mappingSteps[i].key],
                  logged |-> Append(acc.logged, mappingSteps[i].log)])
    ELSE mapFrom(i + 1, command, commands, acc)

\* the lint tests read output.args.command as rewritten so far
mapFromRemapsLint(i, command, commands, acc) ==
    IF i > Len(mappingSteps) THEN acc
    ELSE IF stepApplies(mappingSteps[i],
                        IF "includes" \in DOMAIN mappingSteps[i] THEN acc.command
                        ELSE command,
                        commands)
    THEN mapFrom(i + 1, command, commands,
                 [command |-> commands[mappingSteps[i].key],
                  logged |-> Append(acc.logged, mappingSteps[i].log)])
    ELSE mapFrom(i + 1, command, commands, acc)

\* the steps from i on; acc is output.args.command and the logger calls so far
mapFrom(i, command, commands, acc) ==
    IF i > Len(mappingSteps) THEN acc
    ELSE IF stepApplies(mappingSteps[i], command, commands)
    THEN mapFrom(i + 1, command, commands,
                 [command |-> commands[mappingSteps[i].key],
                  logged |-> Append(acc.logged, mappingSteps[i].log)])
    ELSE mapFrom(i + 1, command, commands, acc)

mapCommand(command, commands) ==
    mapFrom(1, command, commands, [command |-> command, logged |-> <<>>])

\* what a handler leaves behind: output.args, the error thrown (or NoError),
\* the logger methods called, agentrcConfig, the files, and the locations
\* fs.writeFile was called on
Outcome(args, thrown, logged, config, fs, wrote) ==
    [args |-> args, thrown |-> thrown, logged |-> logged, config |-> config,
     files |-> fs, wrote |-> wrote]

WriteFailed == <<"<fs.writeFile failed>">>
SecurityError == <<"<.env file access blocked by .agentrc security rules>">>

\* fs.access(path.join(app.path.root, ".agentrc")) succeeds
agentrcExists(fs) == fs["root"].kind = "file"

\* the file system after createDefaultAgentrc wrote config
withAgentrc(fs, config) ==
    [fs EXCEPT !["root"] = TextFile(JSONstringify(JObj(config)))]

\* the file system after createDefaultAgentrc wrote the default configuration
withDefaultAgentrc(fs, pd) == withAgentrc(fs, defaultAgentrc(pd))

\* the configuration created becomes the one in use
initCreatedInUse(config, fs, created) ==
    Outcome("__kuuzuki_init_result" :> initialized(created), NoError,
            <<"info", "success">>, JObj(created), withAgentrc(fs, created), {"root"})

\* /init with no .agentrc yet and a write that succeeds; created is the
\* config createDefaultAgentrc returned
initCreated(config, fs, created) ==
    Outcome("__kuuzuki_init_result" :> initialized(created), NoError,
            <<"info", "success">>, config, withAgentrc(fs, created), {"root"})

\* output.args.content followed by the marker comment
withMarker(args) ==
    ("content" :> ((IF Has(args, "content") THEN args["content"] ELSE Undefined)
                   \o AgentsMdMarker)) @@ args

\* a write of a path ending in AGENTS.md
interceptAgentsMd(args, config, fs, pd, writeOk) ==
    IF agentrcExists(fs)
    THEN Outcome(withMarker(args), NoError, <<"info", "info">>, config, fs, {})
    ELSE IF ~writeOk
    THEN Outcome(args, WriteFailed, <<"info">>, config, fs, {"root"})
    ELSE Outcome(withMarker(args), NoError, <<"info", "success">>, config,
                 withDefaultAgentrc(fs, pd), {"root"})

\* no test for an existing .agentrc
interceptInitAlwaysCreates(args, config, fs, pd, writeOk) ==
    IF ~writeOk
    THEN Outcome(args, WriteFailed, <<"info">>, config, fs, {"root"})
    ELSE initCreated(config, fs, defaultAgentrc(pd))

\* the shell command /init
interceptInit(args, config, fs, pd, writeOk) ==
    IF agentrcExists(fs)
    THEN Outcome("__kuuzuki_init_result" :> alreadyInitialized, NoError, <<"info">>,
                 config, fs, {})
    ELSE IF ~writeOk
    THEN Outcome(args, WriteFailed, <<"info">>, config, fs, {"root"})
    ELSE initCreated(config, fs, defaultAgentrc(pd))

\* the file keeps what it held
memoryReportUnwritten(args, margs, r, path, fs) ==
    IF r.thrown = NoError
    THEN Outcome("__kuuzuki_memory_result" :> r.result, NoError, <<"info">>, r.config, fs,
                 IF r.written THEN {path} ELSE {})
    ELSE Outcome(args, r.thrown, <<"info", "error">>, r.config, fs,
                 IF r.written THEN {path} ELSE {})

\* the rest of the memory branch once handleMemoryCommand has returned or
\* thrown: r is its outcome, margs the arguments it was given
memoryReport(args, margs, r, path, fs) ==
    LET action == IF Has(margs, "action") THEN margs["action"] ELSE Undefined
        adds == action = T_add /\ Truthy(margs, "rule")
        removes == action = T_remove /\ Has(margs, "ruleId")
        announced == IF action = T_list \/ adds \/ removes THEN <<"info">> ELSE <<>>
        wrote == IF r.written THEN {path} ELSE {}
    IN  IF r.thrown = NoError
        THEN Outcome("__kuuzuki_memory_result" :> r.result, NoError,
                     announced \o (IF adds \/ removes THEN <<"success">> ELSE <<>>),
                     r.config,
                     IF r.written
                     THEN [fs EXCEPT ![path] = TextFile(JSONstringify(r.config))]
                     ELSE fs,
                     wrote)
        ELSE Outcome(args, r.thrown, announced \o <<"error">>, r.config, fs, wrote)

\* a file that no longer holds what was loaded is left alone
memoryDispatchDetectsConflict(args, margs, config, path, fs, writeOk) ==
    IF path # "null" /\ fs[path] # TextFile(JSONstringify(config))
    THEN Outcome(args, <<"<.agentrc changed on disk>">>, <<"error">>, config, fs, {})
    ELSE memoryReport(args, margs, handleMemoryCommand(margs, config, path, writeOk),
                      path, fs)

\* the memory branch with the parsed arguments margs
memoryDispatch(args, margs, config, path, fs, writeOk) ==
    memoryReport(args, margs, handleMemoryCommand(margs, config, path, writeOk), path, fs)

\* the args of the memory command: output.args for the memory tool, the parsed
\* parts for the shell form
memoryArgs(tool, args) ==
    IF tool = "memory" THEN args ELSE parseMemoryCommand(args["command"])

\* the memory tool, or a shell command that starts with "memory "
interceptMemory(tool, args, config, path, fs, writeOk) ==
    memoryDispatch(args, memoryArgs(tool, args), config, path, fs, writeOk)

\* the configuration is not looked at
sensitiveEnvBlocksAll(config) == TRUE

\* only the rules are looked at
sensitiveEnvRulesOnly(config) ==
    /\ config.t = "object"
    /\ Has(config.o, "rules")
    /\ \E i \in 1..Len(config.o["rules"]) :
          Includes(ToLowerCase(config.o["rules"][i]), T_protect_env)

\* any sensitiveFiles entry that names .env counts
sensitiveEnvAnyEntry(config) ==
    /\ config.t = "object"
    /\ \/ /\ Has(config.o, "security")
          /\ Has(config.o["security"], "sensitiveFiles")
          /\ \E i \in 1..Len(config.o["security"]["sensitiveFiles"]) :
                Includes(config.o["security"]["sensitiveFiles"][i], T_dot_env)
       \/ /\ Has(config.o, "rules")
          /\ \E i \in 1..Len(config.o["rules"]) :
                Includes(ToLowerCase(config.o["rules"][i]), T_protect_env)

\* the rules are searched as they are written, not in lower case
sensitiveEnvCaseSensitive(config) ==
    /\ config.t = "object"
    /\ \/ /\ Has(config.o, "security")
          /\ Has(config.o["security"], "sensitiveFiles")
          /\ Contains(config.o["security"]["sensitiveFiles"], T_star_env)
       \/ /\ Has(config.o, "rules")
          /\ \E i \in 1..Len(config.o["rules"]) :
                Includes(config.o["rules"][i], T_protect_env)

\* sensitiveFiles includes "*.env", or some rule contains "protect .env"
sensitiveEnv(config) ==
    /\ config.t = "object"
    /\ \/ /\ Has(config.o, "security")
          /\ Has(config.o["security"], "sensitiveFiles")
          /\ Contains(config.o["security"]["sensitiveFiles"], T_star_env)
       \/ /\ Has(config.o, "rules")
          /\ \E i \in 1..Len(config.o["rules"]) :
                Includes(ToLowerCase(config.o["rules"][i]), T_protect_env)

\* some restricted pattern, its first "*" removed, occurs in the path
isRestricted(filePath, config) ==
    /\ filePath # <<>>
    /\ config.t = "object"
    /\ Has(config.o, "security")
    /\ Has(config.o["security"], "restrictedPaths")
    /\ LET patterns == config.o["security"]["restrictedPaths"]
       IN  \E i \in 1..Len(patterns) :
              Includes(filePath, ReplaceFirst(patterns[i], <<"*">>, <<>>))

\* security rules enforcement and file operation restrictions; mapped is
\* output.args.command and the logger calls of the command mapping
afterMapping(tool, args, mapped, config, fs) ==
    LET args1 == IF tool = "bash" THEN ("command" :> mapped.command) @@ args ELSE args
        filePath == IF Has(args, "filePath") THEN args["filePath"] ELSE <<>>
    IN  IF tool = "read" /\ Includes(filePath, T_dot_env) /\ sensitiveEnv(config)
        THEN Outcome(args1, SecurityError, mapped.logged \o <<"error">>, config, fs, {})
        ELSE Outcome(args1, NoError,
                     mapped.logged
                     \o (IF tool \in {"write", "edit"} /\ isRestricted(filePath, config)
                         THEN <<"warning">> ELSE <<>>),
                     config, fs, {})

\* command mapping, security rules enforcement, file operation restrictions
passThrough(tool, args, config, fs) ==
    afterMapping(tool, args,
                 IF tool = "bash" /\ config.t = "object" /\ Has(config.o, "commands")
                 THEN mapCommand(args["command"], config.o["commands"])
                 ELSE [command |-> IF tool = "bash" THEN args["command"] ELSE <<>>,
                       logged |-> <<>>],
                 config, fs)

\* command mapping and the two security checks come first when they have
\* something to report
toolExecuteBeforeChecksFirst(tool, args, config, path, fs, pd, writeOk) ==
    IF passThrough(tool, args, config, fs).logged # <<>>
    THEN passThrough(tool, args, config, fs)
    ELSE IF tool = "write" /\ Has(args, "filePath") /\ EndsWith(args["filePath"], T_AGENTS_md)
    THEN interceptAgentsMd(args, config, fs, pd, writeOk)
    ELSE IF tool = "bash" /\ args["command"] = T_slash_init
    THEN interceptInit(args, config, fs, pd, writeOk)
    ELSE IF tool = "memory" \/ (tool = "bash" /\ StartsWith(args["command"], T_memory_))
    THEN interceptMemory(tool, args, config, path, fs, writeOk)
    ELSE passThrough(tool, args, config, fs)

\* the handler; writeOk: whether fs.writeFile, if called, succeeds
toolExecuteBefore(tool, args, config, path, fs, pd, writeOk) ==
    IF tool = "write" /\ Has(args, "filePath") /\ EndsWith(args["filePath"], T_AGENTS_md)
    THEN interceptAgentsMd(args, config, fs, pd, writeOk)
    ELSE IF tool = "bash" /\ args["command"] = T_slash_init
    THEN interceptInit(args, config, fs, pd, writeOk)
    ELSE IF tool = "memory" \/ (tool = "bash" /\ StartsWith(args["command"], T_memory_))
    THEN interceptMemory(tool, args, config, path, fs, writeOk)
    ELSE passThrough(tool, args, config, fs)

---------------------------------------------------------------------------
(* tool.execute.after *)

WithoutKey(o, k) == [x \in DOMAIN o \ {k} |-> o[x]]

\* config.project?.name and config.project?.type
projectField(config, k) ==
    IF Has(config.o, "project") /\ Has(config.o["project"], k)
    THEN config.o["project"][k] ELSE Undefined

kuuzukiMetadata(config) ==
    [project |-> projectField(config, "name"),
     projectType |-> projectField(config, "type"),
     hasAgentrc |-> TRUE,
     rulesCount |-> Len(RulesOrEmpty(config.o))]

\* the comment block appended to what a read returned
projectContext(config) ==
    LET conv == Has(config.o, "conventions")
        tools == Has(config.o, "tools")
    IN  IF conv \/ tools
        THEN <<"\n", "\n", "<!-- Kuuzuki Project Context -->">>
             \o (IF conv
                 THEN <<"\n", "<!-- Naming: >">>
                      \o (IF Truthy(config.o["conventions"], "fileNaming")
                          THEN config.o["conventions"]["fileNaming"]
                          ELSE <<"<not specified>">>)
                      \o <<"< -->">>
                 ELSE <<>>)
             \o (IF tools /\ Truthy(config.o["tools"], "packageManager")
                 THEN <<"\n", "<!-- Package Manager: >">>
                      \o config.o["tools"]["packageManager"] \o <<"< -->">>
                 ELSE <<>>)
        ELSE <<>>

\* the memory result is copied to the output and left in the arguments
toolExecuteAfterKeepsResult(tool, out, config) ==
    IF Has(out.args, "__kuuzuki_memory_result")
    THEN [out EXCEPT !.title = out.args["__kuuzuki_memory_result"].title,
                     !.output = out.args["__kuuzuki_memory_result"].output]
    ELSE IF Has(out.args, "__kuuzuki_init_result")
    THEN [out EXCEPT !.title = out.args["__kuuzuki_init_result"].title,
                     !.output = out.args["__kuuzuki_init_result"].output,
                     !.args = WithoutKey(out.args, "__kuuzuki_init_result")]
    ELSE out

toolExecuteAfter(tool, out, config) ==
    IF Has(out.args, "__kuuzuki_init_result")
    THEN [out EXCEPT !.title = out.args["__kuuzuki_init_result"].title,
                     !.output = out.args["__kuuzuki_init_result"].output,
                     !.args = WithoutKey(out.args, "__kuuzuki_init_result")]
    ELSE IF Has(out.args, "__kuuzuki_memory_result")
    THEN [out EXCEPT !.title = out.args["__kuuzuki_memory_result"].title,
                     !.output = out.args["__kuuzuki_memory_result"].output,
                     !.args = WithoutKey(out.args, "__kuuzuki_memory_result")]
    ELSE IF config.t = "null" THEN
         [out EXCEPT !.title = IF tool = "bash" THEN <<"<kuuzuki>", " ">> \o out.title
                               ELSE out.title]
    ELSE [out EXCEPT
            !.metadata = ("kuuzuki" :> kuuzukiMetadata(config)) @@ out.metadata,
            !.output = IF tool = "read" THEN out.output \o projectContext(config)
                       ELSE out.output,
            !.title = IF tool = "bash" THEN <<"<kuuzuki>", " ">> \o out.title
                      ELSE out.title]

---------------------------------------------------------------------------
(* event, commands.init and KuuzukiAgentrcPlugin *)

\* the logger calls of loadAgentrcConfig
loadLogged(loaded) == IF loaded.path # "null" THEN <<"config">> ELSE <<"info">>

\* displayKuuzukiBanner, called when there is a configuration
bannerLogged(config) == IF config.t = "object" THEN <<"info">> ELSE <<>>

\* the closure variables after loadAgentrcConfig returned loaded
reloaded(loaded) ==
    [config |-> loaded.config, path |-> loaded.path, consulted |-> loaded.consulted,
     logged |-> <<"config">> \o loadLogged(loaded) \o bannerLogged(loaded.config)]

\* case "file.changed" for a path that ends with ".agentrc"
reload(fs) == reloaded(loadAgentrcConfig(fs))

\* case "session.start": the logger calls
sessionStartLogged(config, path, fs, pd) ==
    <<"session">>
    \o (IF config.t = "null" /\ path = "null"
        THEN <<"info">>
             \o (IF pd.packageJson.kind = "file" /\ ~agentrcExists(fs)
                 THEN <<"info">> ELSE <<>>)
        ELSE <<>>)

\* the reload merges the legacy files in, as the start does
eventMergingLegacy(type, changedPath, config, path, fs, lf, pd) ==
    IF type = "file.changed" /\ EndsWith(changedPath, T_agentrc)
    THEN [config |-> mergeConfigs(loadAgentrcConfig(fs).config, loadLegacyConfigs(lf)),
          path |-> loadAgentrcConfig(fs).path, consulted |-> {}, logged |-> <<"config">>]
    ELSE [config |-> config, path |-> path, consulted |-> {}, logged |-> <<>>]

\* the handler: the closure variables and the logger calls after the event
event(type, changedPath, config, path, fs, lf, pd) ==
    IF type = "file.changed" /\ EndsWith(changedPath, T_agentrc)
    THEN reload(fs)
    ELSE [config |-> config, path |-> path, consulted |-> {},
          logged |-> IF type = "session.start" THEN sessionStartLogged(config, path, fs, pd)
                     ELSE IF type = "session.end" THEN <<"session">>
                     ELSE <<>>]

\* commands.init after createDefaultAgentrc returned created
commandCreated(fs, created) ==
    [thrown |-> NoError, result |-> initialized(created),
     files |-> withAgentrc(fs, created), wrote |-> {"root"},
     logged |-> <<"info", "success">>]

\* commands.init: what it returns (result), or the error of fs.writeFile
commandsInit(fs, pd, writeOk) ==
    IF agentrcExists(fs)
    THEN [thrown |-> NoError, result |-> alreadyInitialized, files |-> fs,
          wrote |-> {}, logged |-> <<"info">>]
    ELSE IF ~writeOk
    THEN [thrown |-> WriteFailed, result |-> alreadyInitialized, files |-> fs,
          wrote |-> {"root"}, logged |-> <<"info">>]
    ELSE commandCreated(fs, defaultAgentrc(pd))

\* the closure variables and the logger calls once the configuration is merged
startedWith(loaded, legacy, merged) ==
    [config |-> merged, path |-> loaded.path, consulted |-> loaded.consulted,
     primary |-> loaded.config, legacy |-> legacy,
     logged |-> <<"session">> \o loadLogged(loaded) \o bannerLogged(merged)]

\* const mergedConfig = mergeConfigs(agentrcConfig, legacyConfig)
mergeLoaded(loaded, legacy) ==
    startedWith(loaded, legacy, mergeConfigs(loaded.config, legacy))

\* the body of KuuzukiAgentrcPlugin up to the hooks it returns
pluginStart(fs, lf) == mergeLoaded(loadAgentrcConfig(fs), loadLegacyConfigs(lf))

---------------------------------------------------------------------------
(* The files, projects and invocations the model runs on *)

RuleA == <<"A">>
RuleX == <<"X">>
RuleR0 == <<"R", "0">>
RuleR1 == <<"R", "1">>
RuleProtect == <<"P", "r", "o", "t", "e", "c", "t", " ", ".", "E", "N", "V">>
RuleStrict == <<"A", "l", "w", "a", "y", "s", " ", "u", "s", "e", " ", "T", "y", "p", "e", "S", "c", "r", "i", "p", "t", " ", "s", "t", "r", "i", "c", "t", " ", "m", "o", "d", "e">>
RuleFollow == <<"F", "o", "l", "l", "o", "w", " ", "s", "t", "y", "l", "e", ":", " ", "b", "e", " ", "c", "o", "n", "s", "i", "s", "t", "e", "n", "t">>

T_bun_test == T_bun \o <<" ">> \o T_test
T_make_all == <<"m", "a", "k", "e", " ", "a", "l", "l">>
T_make == <<"m", "a", "k", "e">>
T_eslint_src == <<"e", "s", "l", "i", "n", "t", " ", "s", "r", "c", "/">>
T_vite_dev == <<"v", "i", "t", "e", " ", "d", "e", "v">>
T_star_key == <<"*", ".", "k", "e", "y">>
T_node_modules_glob == <<"n", "o", "d", "e", "_", "m", "o", "d", "u", "l", "e", "s", "/", "*", "*">>
T_dist_glob == <<"d", "i", "s", "t", "/", "*">>

\* the configuration of the README, with kuuzuki's commands
ConfigFull ==
    JObj(("project" :> (("name" :> <<"<my-awesome-project>">>)
                        @@ ("type" :> <<"<typescript-react-app>">>)))
         @@ ("commands" :> (("build" :> T_make_all) @@ ("test" :> T_bun_test)
                            @@ ("dev" :> T_vite_dev) @@ ("lint" :> T_eslint_src)))
         @@ ("rules" :> <<RuleA>>)
         @@ ("tools" :> ("packageManager" :> T_npm))
         @@ ("security" :> (("sensitiveFiles" :> <<T_star_env, T_star_key>>)
                            @@ ("restrictedPaths" :> <<T_node_modules_glob>>))))

\* a configuration with neither rules nor commands nor security
ConfigBare == JObj("project" :> ("name" :> <<"<bare>">>))

\* commands that name one another, sensitive files without "*.env"
ConfigChain ==
    JObj(("commands" :> (("test" :> T_npm_run_build) @@ ("build" :> T_make)))
         @@ ("rules" :> <<RuleR1, RuleA>>)
         @@ ("security" :> (("sensitiveFiles" :> <<T_star_key, T_dot_env>>)
                            @@ ("restrictedPaths" :> <<T_dist_glob>>))))

JsonFile(v) == TextFile(JSONstringify(v))

Disk(root, global, home) == ("root" :> root) @@ ("global" :> global) @@ ("home" :> home)

AgentsMdText ==
    <<"#", " ", "G", "u", "i", "d", "e", "\n", "-", " ", "F", "o", "l", "l", "o", "w", " ", "s", "t", "y", "l", "e", ":", " ", "b", "e", " ", "c", "o", "n", "s", "i", "s", "t", "e", "n", "t", "\n", "-", " ", "T", "e", "s", "t", ":", " ", Backtick, "n", "p", "m", " ", "t", "e", "s", "t", Backtick, "\n", "p", "l", "a", "i", "n">>

ClaudeMdText ==
    <<"-", " ", "B", "u", "i", "l", "d", ":", " ", Backtick, "b", "u", "n", " ", "r", "u", "n", " ", "b", "u", "i", "l", "d", Backtick, "\n", "-", " ", "C", "h", "e", "c", "k", ":", " ", Backtick, "y", "a", "r", "n", " ", "t", "e", "s", "t", ":", "u", "n", "i", "t", Backtick, " ", "a", "n", "d", " ", Backtick, "n", "p", "m", " ", "r", "u", "n", " ", "l", "i", "n", "t", Backtick, "\n", "-", " ", "n", "o", " ", "c", "o", "l", "o", "n", " ", "h", "e", "r", "e">>

Legacy(agents, claude, cursor, copilot) ==
    ("AGENTS.md" :> agents) @@ ("CLAUDE.md" :> claude) @@ (".cursorrules" :> cursor)
    @@ ("copilot-instructions.md" :> copilot)

Project(name, packageJson, present) ==
    [name |-> name, packageJson |-> packageJson, present |-> present]

PackageJsonReact ==
    JObj(("scripts" :> (("build" :> T_vite) @@ ("test" :> T_jest) @@ ("lint" :> T_lint)))
         @@ ("dependencies" :> <<T_react>>)
         @@ ("devDependencies" :> <<T_jest, T_vite, T_typescript>>))

ProjectPlain == Project(<<"<proj>">>, NoFile, {})
ProjectReact == Project(<<"<proj>">>, JsonFile(PackageJsonReact), {"yarn.lock"})

LegacyNone == Legacy(NoFile, NoFile, NoFile, NoFile)
LegacyAgents == Legacy(TextFile(AgentsMdText), NoFile, TextFile(AgentsMdText), NoFile)
LegacyBoth ==
    Legacy(TextFile(AgentsMdText), TextFile(ClaudeMdText), NoFile, TextFile(ClaudeMdText))

Session(fs, lf, pd) == [files |-> fs, legacyFiles |-> lf, projectDir |-> pd]

\* what a session may start with: the .agentrc files, the legacy files and
\* the project directory
Sessions ==
    << Session(Disk(NoFile, NoFile, NoFile), LegacyNone, ProjectPlain),
       Session(Disk(NoFile, NoFile, NoFile), LegacyAgents, ProjectReact),
       Session(Disk(JsonFile(ConfigFull), NoFile, NoFile), LegacyNone, ProjectPlain),
       Session(Disk(JsonFile(ConfigFull), NoFile, NoFile), LegacyBoth, ProjectPlain),
       Session(Disk(JsonFile(ConfigBare), JsonFile(ConfigFull), NoFile), LegacyNone,
               ProjectReact),
       Session(Disk(TextFile(NotJson), JsonFile(ConfigChain), NoFile), LegacyAgents,
               ProjectPlain),
       Session(Disk(NoFile, JsonFile(JNumber), JsonFile(ConfigFull)), LegacyNone,
               ProjectPlain),
       Session(Disk(JsonFile(ConfigChain), NoFile, JsonFile(ConfigBare)), LegacyNone,
               ProjectPlain) >>

T_ls == <<"l", "s">>
T_cat_env == <<"c", "a", "t", " ", ".", "e", "n", "v">>
T_env_local == <<"c", "o", "n", "f", "i", "g", "/", ".", "e", "n", "v", ".", "l", "o", "c", "a", "l">>
T_src_a == <<"s", "r", "c", "/", "a", ".", "j", "s">>
T_docs_agents == <<"d", "o", "c", "s", "/", "A", "G", "E", "N", "T", "S", ".", "m", "d">>
T_node_modules_file == <<"n", "o", "d", "e", "_", "m", "o", "d", "u", "l", "e", "s", "/", "p", "k", "g", "/", "i", "n", "d", "e", "x", ".", "j", "s">>
T_root_agentrc == <<"/", "p", "r", "o", "j", "/", ".", "a", "g", "e", "n", "t", "r", "c">>

\* the shell forms of the README
shellList == T_memory_ \o T_action \o <<"=">> \o T_list
shellAdd(text) ==
    T_memory_ \o T_action \o <<"=">> \o T_add \o <<" ">> \o T_rule \o <<"=", "\"">>
    \o text \o <<"\"">>
shellAddBare(text) ==
    T_memory_ \o T_action \o <<"=">> \o T_add \o <<" ">> \o T_rule \o <<"=">> \o text
shellRemove(id) ==
    T_memory_ \o T_action \o <<"=">> \o T_remove \o <<" ">> \o T_ruleId \o <<"=">> \o id

Bash(command) == [tool |-> "bash", args |-> ("command" :> command)]
Memory(args) == [tool |-> "memory", args |-> args]
File(tool, filePath) ==
    [tool |-> tool,
     args |-> IF tool = "read" THEN "filePath" :> filePath
              ELSE ("filePath" :> filePath) @@ ("content" :> <<"<content>">>)]

\* the tool invocations the host may make in a session
Invocations ==
    << Bash(T_npm_test), Bash(T_eslint_src), Bash(T_slash_init),
       Bash(shellList), Bash(shellAdd(RuleX)), Bash(shellAdd(RuleStrict)),
       Bash(shellAddBare(T_lint)), Bash(shellRemove(<<"0">>)),
       Memory("action" :> T_list),
       Memory(("action" :> T_add) @@ ("rule" :> RuleX)),
       Memory(("action" :> T_add) @@ ("rule" :> RuleProtect)),
       Memory("action" :> T_add),
       Memory(("action" :> T_remove) @@ ("ruleId" :> JsNumber(0))),
       Memory(("action" :> T_remove) @@ ("ruleId" :> JsNumber(1))),
       Memory(("action" :> T_remove) @@ ("ruleId" :> JsNumber(0 - 1))),
       Memory(("action" :> T_remove) @@ ("ruleId" :> JsNumber(7))),
       Memory("action" :> T_remove),
       Memory(EmptyObject),
       File("read", T_dot_env), File("read", T_env_local), File("read", T_src_a),
       File("write", T_docs_agents), File("write", T_node_modules_file) >>

\* the events the host may report
Events ==
    << [type |-> "session.start", path |-> <<>>],
       [type |-> "session.end", path |-> <<>>],
       [type |-> "file.changed", path |-> T_root_agentrc],
       [type |-> "file.changed", path |-> T_src_a] >>

---------------------------------------------------------------------------
(* The state machine *)

NoInput == [hook |-> "none", tool |-> "none", args |-> EmptyObject]
NoOutput == [args |-> EmptyObject, title |-> Undefined, output |-> Undefined,
             metadata |-> EmptyObject]
Effect(thrown, logged, consulted, wrote) ==
    [thrown |-> thrown, logged |-> logged, consulted |-> consulted, wrote |-> wrote]
NoCall == [op |-> "none"]

RulesOf(config) == IF config.t = "object" THEN RulesOrEmpty(config.o) ELSE <<>>

Init ==
    /\ phase = "boot"
    /\ \E i \in DOMAIN Sessions :
          /\ files = Sessions[i].files
          /\ legacyFiles = Sessions[i].legacyFiles
          /\ projectDir = Sessions[i].projectDir
    /\ agentrcConfig = JNull
    /\ configPath = "null"
    /\ input = NoInput
    /\ output = NoOutput
    /\ effect = Effect(NoError, <<>>, {}, {})
    /\ calls = 0
    /\ startup = [primary |-> JNull, legacy |-> JNull]
    /\ fnCall = NoCall

\* the state after KuuzukiAgentrcPlugin computed s
Started(s) ==
    /\ agentrcConfig' = s.config
    /\ configPath' = s.path
    /\ startup' = [primary |-> s.primary, legacy |-> s.legacy]
    /\ effect' = Effect(NoError, s.logged, s.consulted, {})

\* the host loads the plugin
KuuzukiAgentrcPlugin ==
    /\ phase = "boot"
    /\ Started(pluginStart(files, legacyFiles))
    /\ phase' = "running"
    /\ input' = [NoInput EXCEPT !.hook = "KuuzukiAgentrcPlugin"]
    /\ UNCHANGED <<files, legacyFiles, projectDir, output, calls, fnCall>>

\* the state after tool.execute.before left r for the invocation inv
BeforeDone(inv, r) ==
    /\ input' = [hook |-> "tool.execute.before", tool |-> inv.tool, args |-> inv.args]
    /\ output' = [NoOutput EXCEPT !.args = r.args]
    /\ effect' = Effect(r.thrown, r.logged, {}, r.wrote)
    /\ agentrcConfig' = r.config
    /\ files' = r.files
    /\ phase' = IF r.thrown = NoError THEN "executing" ELSE "running"

\* the host is about to run a tool
ToolExecuteBefore ==
    /\ phase = "running"
    /\ calls < MaxCalls
    /\ \E i \in DOMAIN Invocations, writeOk \in BOOLEAN :
          BeforeDone(Invocations[i],
                     toolExecuteBefore(Invocations[i].tool, Invocations[i].args,
                                       agentrcConfig, configPath, files, projectDir,
                                       writeOk))
    /\ calls' = calls + 1
    /\ UNCHANGED <<legacyFiles, projectDir, configPath, startup, fnCall>>

\* the tool has run: the host has set the title and the output of the result
ToolExecuteAfter ==
    /\ phase = "executing"
    /\ output' = toolExecuteAfter(input.tool,
                                  [output EXCEPT !.title = <<"<title>">>,
                                                 !.output = <<"<tool output>">>],
                                  agentrcConfig)
    /\ input' = [input EXCEPT !.hook = "tool.execute.after"]
    /\ effect' = Effect(NoError, <<>>, {}, {})
    /\ phase' = "running"
    /\ UNCHANGED <<files, legacyFiles, projectDir, agentrcConfig, configPath, calls,
                   startup, fnCall>>

\* the state after the event handler left r for the event e
EventDone(e, r) ==
    /\ input' = [hook |-> "event", tool |-> e.type, args |-> ("path" :> e.path)]
    /\ agentrcConfig' = r.config
    /\ configPath' = r.path
    /\ effect' = Effect(NoError, r.logged, r.consulted, {})

\* the host reports an event
Event ==
    /\ phase = "running"
    /\ calls < MaxCalls
    /\ \E i \in DOMAIN Events :
          EventDone(Events[i],
                    event(Events[i].type, Events[i].path, agentrcConfig, configPath,
                          files, legacyFiles, projectDir))
    /\ output' = NoOutput
    /\ calls' = calls + 1
    /\ UNCHANGED <<phase, files, legacyFiles, projectDir, startup, fnCall>>

\* the state after commands.init left r
InitDone(r) ==
    /\ files' = r.files
    /\ effect' = Effect(r.thrown, r.logged, {}, r.wrote)
    /\ output' = IF r.thrown = NoError
                 THEN [NoOutput EXCEPT !.title = r.result.title,
                                       !.output = r.result.output]
                 ELSE NoOutput

\* the host runs the registered init command
CommandsInit ==
    /\ phase = "running"
    /\ calls < MaxCalls
    /\ \E writeOk \in BOOLEAN : InitDone(commandsInit(files, projectDir, writeOk))
    /\ input' = [NoInput EXCEPT !.hook = "commands.init"]
    /\ calls' = calls + 1
    /\ UNCHANGED <<phase, legacyFiles, projectDir, agentrcConfig, configPath, startup,
                   fnCall>>

Next ==
    \/ KuuzukiAgentrcPlugin
    \/ ToolExecuteBefore
    \/ ToolExecuteAfter
    \/ Event
    \/ CommandsInit

Spec == Init /\ [][Next]_vars

---------------------------------------------------------------------------
(* notifications.js: createNotifier(context).notify *)

\* the external commands, each named by what distinguishes it from the others
OsaScript == "osascript"
NotifySendFull == "notify-send -i -t -a"
NotifySendSimple == "notify-send -t"
NotifySendFinal == "notify-send -t -a"
BurntToast == "powershell New-BurntToastNotification"
MessageBox == "powershell MessageBox"

\* the package managers in the order detectLinuxDistro asks for them
packageManagers ==
    << [which |-> "which pacman", distro |-> "arch", check |-> "pacman -Qi libnotify",
        install |-> "sudo pacman -S libnotify"],
       [which |-> "which apt", distro |-> "debian", check |-> "dpkg -l libnotify-bin",
        install |-> "sudo apt install libnotify-bin"],
       [which |-> "which dnf", distro |-> "fedora", check |-> "rpm -q libnotify",
        install |-> "sudo dnf install libnotify"],
       [which |-> "which zypper", distro |-> "opensuse", check |-> "rpm -q libnotify-tools",
        install |-> "sudo zypper install libnotify-tools"] >>

\* detectLinuxDistro($): position of the first package manager found, 0 for
\* 'generic'; ok is the set of commands that succeed
detectLinuxDistro(ok) ==
    LET found == {i \in DOMAIN packageManagers : packageManagers[i].which \in ok}
    IN  IF found = {} THEN 0 ELSE CHOOSE i \in found : \A j \in found : i <= j

\* the which commands detectLinuxDistro ran
detectRan(ok) ==
    LET d == detectLinuxDistro(ok)
        last == IF d = 0 THEN Len(packageManagers) ELSE d
    IN  [i \in 1..last |-> packageManagers[i].which]

\* checkNotificationDeps($, distro): false for 'generic' and when the check fails
checkNotificationDeps(ok, d) == d # 0 /\ packageManagers[d].check \in ok

\* the commands of the dependency check and of installNotificationDeps, whose
\* failure is swallowed
depsRan(ok, d) ==
    IF d = 0 THEN <<>>
    ELSE IF checkNotificationDeps(ok, d) THEN <<packageManagers[d].check>>
    ELSE <<packageManagers[d].check, packageManagers[d].install>>

\* string.replace(/"/g, '\\"').replace(/'/g, "\\'")
RECURSIVE Escaped(_)
Escaped(s) ==
    IF s = <<>> THEN <<>>
    ELSE IF Head(s) \in {"\"", "'"} THEN <<"\\", Head(s)>> \o Escaped(Tail(s))
    ELSE <<Head(s)>> \o Escaped(Tail(s))

\* `[${title}] ${message}`
LogLine(title, message) == <<"[">> \o title \o <<"]", " ">> \o message

\* what the switch leaves: whether an error escaped it, the console.log lines
\* and the commands run
Switched(threw, logged, ran) == [threw |-> threw, logged |-> logged, ran |-> ran]

\* case 'linux'
linuxCase(ok) ==
    IF NotifySendFull \in ok THEN Switched(FALSE, <<>>, <<NotifySendFull>>)
    ELSE IF NotifySendSimple \in ok
    THEN Switched(FALSE, <<>>, <<NotifySendFull, NotifySendSimple>>)
    ELSE Switched(FALSE, <<>>,
                  <<NotifySendFull, NotifySendSimple>> \o detectRan(ok)
                  \o depsRan(ok, detectLinuxDistro(ok)) \o <<NotifySendFinal>>)

\* switch (platform)
platformSwitch(platform, ok, title, message) ==
    CASE platform = "darwin" -> Switched(OsaScript \notin ok, <<>>, <<OsaScript>>)
      [] platform = "linux" -> linuxCase(ok)
      [] platform = "win32" ->
            IF BurntToast \in ok THEN Switched(FALSE, <<>>, <<BurntToast>>)
            ELSE Switched(MessageBox \notin ok, <<>>, <<BurntToast, MessageBox>>)
      [] OTHER -> Switched(FALSE, <<LogLine(Escaped(title), Escaped(message))>>, <<>>)

Notified(raised, logged, ran) == [raised |-> raised, logged |-> logged, ran |-> ran]

\* the catch of notify logs what the switch threw
caught(sw, title, message) ==
    IF sw.threw THEN Notified(FALSE, sw.logged \o <<LogLine(title, message)>>, sw.ran)
    ELSE Notified(FALSE, sw.logged, sw.ran)

\* what the switch threw reaches the caller
notifyUncaught(shell, platform, ok, title, message) ==
    IF ~shell THEN Notified(FALSE, <<LogLine(title, message)>>, <<>>)
    ELSE Notified(platformSwitch(platform, ok, title, message).threw, <<>>,
                  platformSwitch(platform, ok, title, message).ran)

\* notify(title, message, type): shell is whether context.$ is there, ok the
\* commands that succeed
notify(shell, platform, ok, title, message) ==
    IF ~shell THEN Notified(FALSE, <<LogLine(title, message)>>, <<>>)
    ELSE caught(platformSwitch(platform, ok, title, message), title, message)

---------------------------------------------------------------------------
(* The functions on their own: a call is drawn with its arguments, then made *)

T_npm_run_lint == T_npm \o T_run \o T_lint
T_deploy == <<"<deploy.sh>">>

\* what a location may hold
FileContents ==
    << NoFile, TextFile(NotJson), JsonFile(JNumber), JsonFile(JNull), JsonFile(JArray),
       JsonFile(ConfigFull), JsonFile(ConfigBare) >>

\* { "rules": ["R1"] } and { "rules": ["R0"] }
ConfigR1 == JObj("rules" :> <<RuleR1>>)
LegacyR0 == JObj("rules" :> <<RuleR0>>)

\* a legacy configuration whose commands and project meet the primary's
LegacyNamed ==
    JObj(("rules" :> <<RuleA, RuleFollow, RuleA>>)
         @@ ("commands" :> (("test" :> T_npm_test) @@ ("deploy" :> T_deploy)))
         @@ ("project" :> (("name" :> <<"<legacy-name>">>)
                           @@ ("description" :> <<"<from AGENTS.md>">>))))

\* the first arguments of mergeConfigs
Primaries == << JNull, ConfigFull, ConfigBare, ConfigChain, ConfigR1 >>

\* the second arguments of mergeConfigs
LegacyConfigs ==
    << JNull, loadLegacyConfigs(LegacyAgents), loadLegacyConfigs(LegacyBoth), LegacyR0,
       LegacyNamed >>

\* an AGENTS.md with one rule line and one line that names a command
AgentsMdExample ==
    <<"-", " ">> \o RuleFollow
    \o <<"\n", "R", "u", "n", " ", Backtick>> \o T_npm_test \o <<Backtick, " ", "f", "i", "r", "s", "t">>

\* an AGENTS.md with neither
PlainMdText == <<"#", " ", "N", "o", "t", "e", "s", "\n", "-", " ", "p", "l", "a", "i", "n">>

\* what AGENTS.md, CLAUDE.md and the two other legacy files may hold
AgentsContents ==
    << NoFile, TextFile(AgentsMdText), TextFile(AgentsMdExample), TextFile(PlainMdText) >>
ClaudeContents == << NoFile, TextFile(ClaudeMdText), TextFile(AgentsMdText) >>
OtherContents == << NoFile, TextFile(ClaudeMdText) >>

\* which package managers are there, and whether the check and the install
\* of the one detected succeed
WhichOutcomes == SUBSET {packageManagers[i].which : i \in DOMAIN packageManagers}
CheckCommands == {packageManagers[i].check : i \in DOMAIN packageManagers}
InstallCommands == {packageManagers[i].install : i \in DOMAIN packageManagers}

\* platforms, with the sets of commands that may succeed on each
LinuxOutcomes ==
    {n \cup w \cup c \cup i :
        n \in SUBSET {NotifySendFull, NotifySendSimple, NotifySendFinal},
        w \in WhichOutcomes, c \in {{}, CheckCommands}, i \in {{}, InstallCommands}}

Platform(platform, outcomes) == [platform |-> platform, outcomes |-> outcomes]

Platforms ==
    << Platform("darwin", SUBSET {OsaScript}), Platform("linux", LinuxOutcomes),
       Platform("win32", SUBSET {BurntToast, MessageBox}), Platform("freebsd", {{}}) >>

T_title == <<"K", "u", "u", "z", "u", "k", "i">>
T_message_plain == <<"r", "e", "a", "d", "y">>
T_message_quoted == <<"s", "a", "y", " ", "\"", "h", "i", "\"">>
Messages == << T_message_plain, T_message_quoted >>

\* what package.json may hold, and the other files analyzeProject looks for
PackageJsons ==
    << NoFile, TextFile(NotJson), JsonFile(JNull), JsonFile(JNumber),
       JsonFile(JObj(EmptyObject)), JsonFile(PackageJsonReact) >>
ProjectMarkers == {"Cargo.toml", "go.mod", "requirements.txt", "yarn.lock", "tsconfig.json"}

T_dist_agents == <<"d", "i", "s", "t", "/">> \o T_AGENTS_md
T_dist_file == <<"d", "i", "s", "t", "/", "o", "u", "t", ".", "j", "s">>
T_server_key == <<"s", "e", "r", "v", "e", "r", ".", "k", "e", "y">>

\* sensitive files named in ways other than "*.env"
ConfigOtherSensitive ==
    JObj(("rules" :> <<RuleA>>)
         @@ ("security" :> ("sensitiveFiles" :> <<T_star_key, T_dot_env,
                                                  <<"*", "*", "/">> \o T_star_env>>)))

\* a rule that protects .env files, in capitals, and no security section
ConfigProtectRule == JObj("rules" :> <<RuleProtect>>)

\* the closure variables and the files a call of tool.execute.before may find
HookState(config, path, fs) == [config |-> config, path |-> path, fs |-> fs]
HookStates ==
    << HookState(JNull, "null", Disk(NoFile, NoFile, NoFile)),
       HookState(ConfigFull, "root", Disk(JsonFile(ConfigFull), NoFile, NoFile)),
       HookState(ConfigChain, "global", Disk(NoFile, JsonFile(ConfigChain), NoFile)),
       HookState(ConfigOtherSensitive, "root",
                 Disk(JsonFile(ConfigOtherSensitive), NoFile, NoFile)),
       HookState(ConfigProtectRule, "root",
                 Disk(JsonFile(ConfigProtectRule), NoFile, NoFile)),
       \* .agentrc was edited on disk after it was loaded
       HookState(ConfigFull, "root", Disk(JsonFile(ConfigChain), NoFile, NoFile)) >>

\* the invocations made on their own
HookInvocations ==
    << File("write", T_dist_agents), File("write", T_docs_agents),
       File("write", T_dist_file), File("edit", T_dist_agents),
       Bash(T_slash_init), Bash(shellAddBare(T_lint)), Bash(shellList),
       Bash(T_npm_run_lint), Memory(("action" :> T_add) @@ ("rule" :> T_lint)),
       Memory(("action" :> T_remove) @@ ("ruleId" :> JsNumber(0))),
       File("read", T_dot_env), File("read", T_env_local), File("read", T_src_a),
       File("write", T_dot_env), File("edit", T_env_local), Bash(T_cat_env),
       File("read", T_server_key) >>

\* shell commands that reach the command mapping
ShellCommands ==
    << T_npm_test, T_npm_run_build, T_npm_run_dev, T_npm_run_lint, T_eslint_src,
       T_lint, T_ls, T_cat_env, T_npm_test \o <<" ", "-", "-", "w", "a", "t", "c", "h">> >>

\* a configuration whose only command is lint, set to "npm test"
ConfigLintOnly == JObj("commands" :> ("lint" :> T_npm_test))

\* a configuration whose test command contains lint, with a lint command
ConfigTestIsLint ==
    JObj("commands" :> (("test" :> T_npm_run_lint) @@ ("lint" :> T_eslint_src)))

\* the configurations the mapping runs under
MappingConfigs ==
    << JNull, ConfigBare, ConfigFull, ConfigChain, ConfigLintOnly, ConfigTestIsLint >>

\* a call not yet made, and the call once it returned out
Pending(op, in) == [op |-> op, in |-> in, done |-> FALSE, out |-> <<>>]
Returned(call, out) == [call EXCEPT !.done = TRUE, !.out = out]

FnInit ==
    /\ phase = "pure"
    /\ files = Disk(NoFile, NoFile, NoFile)
    /\ legacyFiles = LegacyNone
    /\ projectDir = ProjectPlain
    /\ agentrcConfig = JNull
    /\ configPath = "null"
    /\ input = NoInput
    /\ output = NoOutput
    /\ effect = Effect(NoError, <<>>, {}, {})
    /\ calls = 0
    /\ startup = [primary |-> JNull, legacy |-> JNull]
    /\ \/ \E r, g, h \in DOMAIN FileContents :
             fnCall = Pending("loadAgentrcConfig",
                              Disk(FileContents[r], FileContents[g], FileContents[h]))
       \/ \E p \in DOMAIN Primaries, l \in DOMAIN LegacyConfigs :
             fnCall = Pending("mergeConfigs",
                              [primary |-> Primaries[p], legacy |-> LegacyConfigs[l]])
       \/ \E c \in DOMAIN ShellCommands, k \in DOMAIN MappingConfigs :
             fnCall = Pending("mapCommand",
                              [command |-> ShellCommands[c], config |-> MappingConfigs[k]])
       \/ \E a \in DOMAIN AgentsContents, c \in DOMAIN ClaudeContents,
             r, g \in DOMAIN OtherContents :
             fnCall = Pending("loadLegacyConfigs",
                              Legacy(AgentsContents[a], ClaudeContents[c],
                                     OtherContents[r], OtherContents[g]))
       \/ \E i \in DOMAIN HookInvocations, h \in DOMAIN HookStates, writeOk \in BOOLEAN :
             fnCall = Pending("toolExecuteBefore",
                              [inv |-> HookInvocations[i], state |-> HookStates[h],
                               writeOk |-> writeOk])
       \/ \E j \in DOMAIN PackageJsons, present \in SUBSET ProjectMarkers :
             fnCall = Pending("analyzeProject",
                              Project(<<"<proj>">>, PackageJsons[j], present))
       \/ \E shell \in BOOLEAN, p \in DOMAIN Platforms, m \in DOMAIN Messages :
             \E ok \in Platforms[p].outcomes :
                fnCall = Pending("notify",
                                 [shell |-> shell, platform |-> Platforms[p].platform,
                                  ok |-> ok, title |-> T_title, message |-> Messages[m]])

\* loadAgentrcConfig(app, logger) over the files fnCall.in
LoadAgentrcConfig ==
    /\ fnCall.op = "loadAgentrcConfig"
    /\ ~fnCall.done
    /\ fnCall' = Returned(fnCall, loadAgentrcConfig(fnCall.in))
    /\ UNCHANGED <<phase, files, legacyFiles, projectDir, agentrcConfig, configPath,
                   input, output, effect, calls, startup>>

\* mergeConfigs(agentrcConfig, legacyConfig)
MergeConfigs ==
    /\ fnCall.op = "mergeConfigs"
    /\ ~fnCall.done
    /\ fnCall' = Returned(fnCall, mergeConfigs(fnCall.in.primary, fnCall.in.legacy))
    /\ UNCHANGED <<phase, files, legacyFiles, projectDir, agentrcConfig, configPath,
                   input, output, effect, calls, startup>>

\* tool.execute.before for the shell command fnCall.in.command under the
\* configuration fnCall.in.config
MapCommand ==
    /\ fnCall.op = "mapCommand"
    /\ ~fnCall.done
    /\ fnCall' = Returned(fnCall,
                          toolExecuteBefore("bash", "command" :> fnCall.in.command,
                                            fnCall.in.config, "null", files, projectDir,
                                            TRUE))
    /\ UNCHANGED <<phase, files, legacyFiles, projectDir, agentrcConfig, configPath,
                   input, output, effect, calls, startup>>

\* loadLegacyConfigs(app) over the legacy files fnCall.in
LoadLegacyConfigs ==
    /\ fnCall.op = "loadLegacyConfigs"
    /\ ~fnCall.done
    /\ fnCall' = Returned(fnCall, loadLegacyConfigs(fnCall.in))
    /\ UNCHANGED <<phase, files, legacyFiles, projectDir, agentrcConfig, configPath,
                   input, output, effect, calls, startup>>

\* notify(title, message) of a notifier created with or without context.$
Notify ==
    /\ fnCall.op = "notify"
    /\ ~fnCall.done
    /\ fnCall' = Returned(fnCall, notify(fnCall.in.shell, fnCall.in.platform, fnCall.in.ok,
                                          fnCall.in.title, fnCall.in.message))
    /\ UNCHANGED <<phase, files, legacyFiles, projectDir, agentrcConfig, configPath,
                   input, output, effect, calls, startup>>

\* analyzeProject(projectPath) over the project directory fnCall.in
AnalyzeProject ==
    /\ fnCall.op = "analyzeProject"
    /\ ~fnCall.done
    /\ fnCall' = Returned(fnCall, analyzeProject(fnCall.in))
    /\ UNCHANGED <<phase, files, legacyFiles, projectDir, agentrcConfig, configPath,
                   input, output, effect, calls, startup>>

\* tool.execute.before for the invocation fnCall.in.inv with the closure
\* variables and files of fnCall.in.state
Intercept ==
    /\ fnCall.op = "toolExecuteBefore"
    /\ ~fnCall.done
    /\ fnCall' = Returned(fnCall,
                          toolExecuteBefore(fnCall.in.inv.tool, fnCall.in.inv.args,
                                            fnCall.in.state.config, fnCall.in.state.path,
                                            fnCall.in.state.fs, projectDir,
                                            fnCall.in.writeOk))
    /\ UNCHANGED <<phase, files, legacyFiles, projectDir, agentrcConfig, configPath,
                   input, output, effect, calls, startup>>

FnNext ==
    \/ Intercept
    \/ LoadAgentrcConfig
    \/ MergeConfigs
    \/ MapCommand
    \/ LoadLegacyConfigs
    \/ Notify
    \/ AnalyzeProject

SpecFn == FnInit /\ [][FnNext]_vars

---------------------------------------------------------------------------
(* Properties *)

\* the location holds a file whose text parses to a value that passes the
\* typeof test: an object, or an array
Loads(fs, loc) ==
    /\ fs[loc].kind = "file"
    /\ fs[loc].text.syntax = "json"
    /\ fs[loc].text.value.t \in {"object", "array"}

\* the first position of locations that loads, if any
FirstLoading(fs) ==
    {i \in 1..Len(locations) :
        Loads(fs, locations[i]) /\ \A j \in 1..(i - 1) : ~Loads(fs, locations[j])}

\* C1: loadAgentrcConfig tries root, then the global directory, then
\* HOME/.config/kuuzuki; it returns the value parsed at the first location that
\* reads and parses to an object, with that location as the path, and has read
\* no later location; locations that are missing, are not JSON or hold no
\* object are skipped, and when none loads the result is (null, null).
C1_FirstLocationWins ==
    (fnCall.op = "loadAgentrcConfig" /\ fnCall.done) =>
        /\ \A i \in FirstLoading(fnCall.in) :
              /\ fnCall.out.config = fnCall.in[locations[i]].text.value
              /\ fnCall.out.path = locations[i]
              /\ fnCall.out.consulted = {locations[j] : j \in 1..i}
        /\ FirstLoading(fnCall.in) = {} =>
              /\ fnCall.out.config = JNull
              /\ fnCall.out.path = "null"

\* root holds text that is not JSON, the global directory and HOME both hold
\* objects: the global one is returned and HOME is not read
C1_GlobalAfterBadRoot ==
    /\ fnCall.op = "loadAgentrcConfig"
    /\ fnCall.done
    /\ fnCall.in = Disk(TextFile(NotJson), JsonFile(ConfigFull), JsonFile(ConfigBare))
    /\ fnCall.out.config = ConfigFull
    /\ fnCall.out.path = "global"
    /\ fnCall.out.consulted = {"root", "global"}

\* C2: the rules of mergeConfigs(P, L) are L's rules followed by P's rules,
\* order and duplicates kept; mergeConfigs(P, null) is P, mergeConfigs(null, L)
\* is L, and mergeConfigs(null, null) is null.
C2_LegacyRulesFirst ==
    (fnCall.op = "mergeConfigs" /\ fnCall.done) =>
        /\ (fnCall.in.primary.t = "object" /\ fnCall.in.legacy.t = "object") =>
              fnCall.out.o["rules"]
                  = RulesOrEmpty(fnCall.in.legacy.o) \o RulesOrEmpty(fnCall.in.primary.o)
        /\ (fnCall.in.primary.t = "object" /\ fnCall.in.legacy.t = "null") =>
              fnCall.out = fnCall.in.primary
        /\ (fnCall.in.primary.t = "null" /\ fnCall.in.legacy.t = "object") =>
              fnCall.out = fnCall.in.legacy
        /\ (fnCall.in.primary.t = "null" /\ fnCall.in.legacy.t = "null") =>
              fnCall.out = JNull

\* rules ["R1"] merged with legacy rules ["R0"] gives ["R0", "R1"]
C2_ScenarioB ==
    /\ fnCall.op = "mergeConfigs"
    /\ fnCall.done
    /\ fnCall.in.primary = ConfigR1
    /\ fnCall.in.legacy = LegacyR0
    /\ fnCall.out.o["rules"] = <<RuleR0, RuleR1>>

\* the entries of part (commands or project) of mergeConfigs(P, L): those of P,
\* and those of L under the keys P does not have
PrimaryOverLegacy(part, P, L, merged) ==
    /\ DOMAIN merged[part] = DOMAIN KeyOrEmpty(P, part) \cup DOMAIN KeyOrEmpty(L, part)
    /\ \A k \in DOMAIN merged[part] :
          merged[part][k] = IF Has(KeyOrEmpty(P, part), k) THEN P[part][k]
                            ELSE L[part][k]

\* C3: when P and L are both present, a key of both P.commands and L.commands
\* has P's value in the merged commands and a key of L.commands alone has L's
\* value; the same holds for project; every other top-level key of the merged
\* configuration is P's, with P's value.
C3_PrimaryWinsPerKey ==
    (/\ fnCall.op = "mergeConfigs"
     /\ fnCall.done
     /\ fnCall.in.primary.t = "object"
     /\ fnCall.in.legacy.t = "object") =>
        /\ PrimaryOverLegacy("commands", fnCall.in.primary.o, fnCall.in.legacy.o,
                             fnCall.out.o)
        /\ PrimaryOverLegacy("project", fnCall.in.primary.o, fnCall.in.legacy.o,
                             fnCall.out.o)
        /\ DOMAIN fnCall.out.o
              = DOMAIN fnCall.in.primary.o \cup {"commands", "rules", "project"}
        /\ \A k \in DOMAIN fnCall.in.primary.o \ {"commands", "rules", "project"} :
              fnCall.out.o[k] = fnCall.in.primary.o[k]

\* both have test and project.name, only the legacy has deploy and
\* project.description, only the primary has tools
C3_CollidingKeys ==
    /\ fnCall.op = "mergeConfigs"
    /\ fnCall.done
    /\ fnCall.in.primary = ConfigFull
    /\ fnCall.in.legacy = LegacyNamed
    /\ fnCall.out.o["commands"]["test"] = T_bun_test
    /\ fnCall.out.o["commands"]["deploy"] = T_deploy
    /\ fnCall.out.o["project"]["name"] = <<"<my-awesome-project>">>
    /\ fnCall.out.o["project"]["description"] = <<"<from AGENTS.md>">>
    /\ fnCall.out.o["tools"] = ConfigFull.o["tools"]

\* the call inp is a call of tool.execute.before, and a memory command
BeforeHook(inp) == inp.hook = "tool.execute.before"
MemoryCall(inp) ==
    \/ inp.tool = "memory"
    \/ inp.tool = "bash" /\ StartsWith(inp.args["command"], T_memory_)
GivenArgs(inp) == memoryArgs(inp.tool, inp.args)
GivenAction(inp) ==
    IF Has(GivenArgs(inp), "action") THEN GivenArgs(inp)["action"] ELSE Undefined
MemoryResult(out) == out.args["__kuuzuki_memory_result"]

\* a memory add with a rule text has returned its result
AddSucceeded(inp, eff) ==
    /\ BeforeHook(inp)
    /\ MemoryCall(inp)
    /\ GivenAction(inp) = T_add
    /\ Truthy(GivenArgs(inp), "rule")
    /\ eff.thrown = NoError

\* the add has completed (its after hook has run) and reported success
AddCompleted(inp, out) ==
    /\ inp.hook = "tool.execute.after"
    /\ MemoryCall(inp)
    /\ GivenAction(inp) = T_add
    /\ out.title = <<"<Rule Added>">>

\* a memory list has returned its result
ListSucceeded(inp, eff) ==
    /\ BeforeHook(inp)
    /\ MemoryCall(inp)
    /\ GivenAction(inp) = T_list
    /\ eff.thrown = NoError

ListedRules(out) == MemoryResult(out).output.value.o["rules"]

AddAppends ==
    (calls' = calls + 1 /\ AddSucceeded(input', effect')) =>
        /\ RulesOf(agentrcConfig')
              = Append(RulesOf(agentrcConfig), GivenArgs(input')["rule"])
        /\ MemoryResult(output').output = <<"<Added rule: >">> \o GivenArgs(input')["rule"]

ListAfterAddShowsRuleLast ==
    (AddCompleted(input, output) /\ calls' = calls + 1 /\ ListSucceeded(input', effect')) =>
        /\ ListedRules(output') # <<>>
        /\ ListedRules(output')[Len(ListedRules(output'))] = GivenArgs(input)["rule"]

\* C4: a successful memory add of the rule text r to a configuration with
\* rules R leaves the rules R followed by r and returns a confirmation that
\* names r; a memory list that follows the add shows r as the last rule.
C4_AddAppendsAndListShowsLast == [][AddAppends /\ ListAfterAddShowsRuleLast]_vars

\* X was added to the rules [A]: the list shows [A, X]
C4_ListShowsAddedRule ==
    /\ ListSucceeded(input, effect)
    /\ ListedRules(output) = <<RuleA, RuleX>>
    /\ RulesOf(agentrcConfig) = <<RuleA, RuleX>>

\* a memory remove with a ruleId has been handled
RemoveGiven(inp) ==
    /\ BeforeHook(inp)
    /\ MemoryCall(inp)
    /\ GivenAction(inp) = T_remove
    /\ Has(GivenArgs(inp), "ruleId")

\* the index a ruleId stands for: the number, or the number its text spells
\* (-1 for a text that is not a sequence of digits)
IndexOfId(v) ==
    IF v.type = "number" THEN v.n
    ELSE IF AllDigits(v.s) THEN DecimalValue(v.s)
    ELSE 0 - 1

IndexGiven(inp) == IndexOfId(GivenArgs(inp)["ruleId"])

HasRules(config) == config.t = "object" /\ Has(config.o, "rules")

\* R without its element at index i (counted from 0)
Without(R, i) == [j \in 1..(Len(R) - 1) |-> IF j <= i THEN R[j] ELSE R[j + 1]]

RemoveAtIndex ==
    (/\ calls' = calls + 1
     /\ RemoveGiven(input')
     /\ HasRules(agentrcConfig)
     /\ IndexGiven(input') \in 0..(Len(RulesOf(agentrcConfig)) - 1)
     /\ effect'.thrown = NoError) =>
        /\ RulesOf(agentrcConfig') = Without(RulesOf(agentrcConfig), IndexGiven(input'))
        /\ MemoryResult(output').output
              = <<"<Removed rule: >">> \o RulesOf(agentrcConfig)[IndexGiven(input') + 1]

\* C5: a memory remove at an index i inside the rules, given as a number or as
\* the text of ruleId=i in the shell form, deletes the element at i, keeps the
\* others in order, and returns a confirmation that names the removed rule.
C5_RemoveDeletesIndex == [][RemoveAtIndex]_vars

\* X was added to [A] and the shell form removed index 0: the rules are [X]
C5_ScenarioC ==
    /\ RemoveGiven(input)
    /\ input.tool = "bash"
    /\ GivenArgs(input)["ruleId"] = JsString(<<"0">>)
    /\ effect.thrown = NoError
    /\ MemoryResult(output).output = <<"<Removed rule: >">> \o RuleA
    /\ RulesOf(agentrcConfig) = <<RuleX>>

OutOfRangeRejected ==
    (/\ calls' = calls + 1
     /\ RemoveGiven(input')
     /\ HasRules(agentrcConfig)
     /\ IndexGiven(input') \notin 0..(Len(RulesOf(agentrcConfig)) - 1)) =>
        /\ effect'.thrown # NoError
        /\ RulesOf(agentrcConfig') = RulesOf(agentrcConfig)

\* C6: a memory remove whose ruleId is negative or not below the number of
\* rules throws, and leaves the rules as they were.
C6_OutOfRangeRemoveThrows == [][OutOfRangeRejected]_vars

\* a memory add or remove has returned its confirmation
MutationSucceeded ==
    /\ BeforeHook(input)
    /\ MemoryCall(input)
    /\ effect.thrown = NoError
    /\ MemoryResult(output).title \in {<<"<Rule Added>">>, <<"<Rule Removed>">>}

\* C7: when a memory add or remove has returned its confirmation, the primary
\* configuration file holds the configuration as changed, however the
\* configuration was built when the plugin started.
C7_MutationsPersisted ==
    MutationSucceeded =>
        /\ configPath # "null"
        /\ files[configPath] = JsonFile(agentrcConfig)

\* C8: the shell form memory action=add rule="text" appends text, and names
\* text in its confirmation, for a text of one word and for a text of several.
C8_ShellAddKeepsText ==
    \A text \in {RuleX, RuleStrict} :
        (/\ BeforeHook(input)
         /\ input.tool = "bash"
         /\ input.args["command"] = shellAdd(text)
         /\ effect.thrown = NoError) =>
            /\ RulesOf(agentrcConfig) # <<>>
            /\ RulesOf(agentrcConfig)[Len(RulesOf(agentrcConfig))] = text
            /\ MemoryResult(output).output = <<"<Added rule: >">> \o text

\* commands[k] is configured
Configured(config, k) ==
    /\ config.t = "object"
    /\ Has(config.o, "commands")
    /\ Truthy(config.o["commands"], k)

\* the command the mapping is to leave, from the original command alone
ExpectedCommand(command, config) ==
    IF command = T_npm_test /\ Configured(config, "test")
    THEN config.o["commands"]["test"]
    ELSE IF command = T_npm_run_build /\ Configured(config, "build")
    THEN config.o["commands"]["build"]
    ELSE IF command = T_npm_run_dev /\ Configured(config, "dev")
    THEN config.o["commands"]["dev"]
    ELSE IF Includes(command, T_lint) /\ Configured(config, "lint")
    THEN config.o["commands"]["lint"]
    ELSE command

\* C9: the command a shell invocation leaves the mapping with is determined by
\* the original command and the commands map: npm test becomes commands.test,
\* npm run build commands.build, npm run dev commands.dev, a command that
\* contains lint commands.lint, each when configured; any other command, and
\* any command without its entry or without a commands map, stays as it was.
C9_MappingOfOriginalCommand ==
    (fnCall.op = "mapCommand" /\ fnCall.done) =>
        /\ fnCall.out.thrown = NoError
        /\ fnCall.out.args["command"] = ExpectedCommand(fnCall.in.command, fnCall.in.config)

\* npm run build with commands.build = make all becomes make all
C9_ScenarioD ==
    /\ fnCall.op = "mapCommand"
    /\ fnCall.done
    /\ fnCall.in.command = T_npm_run_build
    /\ fnCall.in.config = ConfigFull
    /\ fnCall.out.args["command"] = T_make_all

\* security.sensitiveFiles of the configuration contains "*.env"
SensitiveStarEnv ==
    /\ agentrcConfig.t = "object"
    /\ Has(agentrcConfig.o, "security")
    /\ Has(agentrcConfig.o["security"], "sensitiveFiles")
    /\ Contains(agentrcConfig.o["security"]["sensitiveFiles"], T_star_env)

\* a read of a path that contains ".env" has been handled
EnvRead ==
    /\ BeforeHook(input)
    /\ input.tool = "read"
    /\ Includes(input.args["filePath"], T_dot_env)

\* C10: when security.sensitiveFiles contains "*.env", a read of a path that
\* contains ".env" throws the security error in tool.execute.before and
\* leaves the arguments of the invocation as they were.
C10_EnvReadsBlocked ==
    (EnvRead /\ SensitiveStarEnv) =>
        /\ effect.thrown = SecurityError
        /\ output.args = input.args

\* config/.env.local is read under the README's security section
C10_EnvLocalBlocked ==
    /\ EnvRead
    /\ SensitiveStarEnv
    /\ input.args["filePath"] = T_env_local
    /\ effect.thrown = SecurityError
    /\ output.args = input.args

\* the configuration has no security section
NoSecurity == agentrcConfig.t = "null" \/ ~Has(agentrcConfig.o, "security")

\* some rule of the configuration, in lower case, contains "protect .env"
ProtectEnvRule ==
    /\ agentrcConfig.t = "object"
    /\ Has(agentrcConfig.o, "rules")
    /\ \E i \in 1..Len(agentrcConfig.o["rules"]) :
          Includes(ToLowerCase(agentrcConfig.o["rules"][i]), T_protect_env)

\* C11 as stated: without a security section, a read of a path that contains
\* ".env" does not throw, whatever else the configuration holds.
C11_NoSecurityReadsPass == (EnvRead /\ NoSecurity) => effect.thrown = NoError

\* C11: without a security section and without a rule that contains
\* "protect .env" (in lower case), a read of a path that contains ".env" does
\* not throw and leaves the arguments as they were.
C11_NoSecurityNoRuleReadsPass ==
    (EnvRead /\ NoSecurity /\ ~ProtectEnvRule) =>
        /\ effect.thrown = NoError
        /\ output.args = input.args

\* .env was read under a configuration that has rules but no security section
C11_EnvReadUnderPlainConfig ==
    /\ EnvRead
    /\ NoSecurity
    /\ agentrcConfig.t = "object"
    /\ RulesOf(agentrcConfig) # <<>>
    /\ ~ProtectEnvRule
    /\ input.args["filePath"] = T_dot_env
    /\ effect.thrown = NoError

\* a pattern without any of its "*" characters
NotStar(c) == c # "*"
WithoutStars(pattern) == SelectSeq(pattern, NotStar)

\* the restricted-path patterns of the configuration
RestrictedPatterns ==
    IF /\ agentrcConfig.t = "object"
       /\ Has(agentrcConfig.o, "security")
       /\ Has(agentrcConfig.o["security"], "restrictedPaths")
    THEN agentrcConfig.o["security"]["restrictedPaths"]
    ELSE <<>>

\* a write or an edit, other than the write of an AGENTS.md, has been handled
PlainWrite ==
    /\ BeforeHook(input)
    /\ input.tool \in {"write", "edit"}
    /\ ~EndsWith(input.args["filePath"], T_AGENTS_md)

\* C12: a write or edit whose path contains some restricted pattern with all of
\* its "*" removed proceeds with its arguments unchanged and the warning is
\* logged; when the path contains none, no warning is logged.
C12_RestrictedWritesWarn ==
    PlainWrite =>
        /\ effect.thrown = NoError
        /\ output.args = input.args
        /\ Contains(effect.logged, "warning")
              <=> \E k \in 1..Len(RestrictedPatterns) :
                     Includes(input.args["filePath"], WithoutStars(RestrictedPatterns[k]))

\* the call inp is the init command, or the shell command /init
InitCall(inp) ==
    \/ inp.hook = "commands.init"
    \/ /\ BeforeHook(inp)
       /\ inp.tool = "bash"
       /\ inp.args["command"] = T_slash_init

\* the response of an init call
InitResult(inp, out) ==
    IF inp.hook = "commands.init" THEN [title |-> out.title, output |-> out.output]
    ELSE out.args["__kuuzuki_init_result"]

\* the success response for the project name
CreatedResponse(name) ==
    [title |-> <<"<Kuuzuki Project Initialized>">>,
     output |-> <<"<Created .agentrc configuration for \">">> \o name
                \o <<"<\" Next steps: ...>">>]

\* an init call that finds .agentrc answers already-initialized and writes nothing
InitKeepsExisting ==
    (calls' = calls + 1 /\ InitCall(input') /\ files["root"].kind = "file") =>
        /\ effect'.thrown = NoError
        /\ InitResult(input', output') = alreadyInitialized
        /\ effect'.wrote = {}
        /\ files' = files

\* an init call that finds no .agentrc and returns has created it and names
\* the project
InitCreatesMissing ==
    (/\ calls' = calls + 1
     /\ InitCall(input')
     /\ files["root"].kind = "missing"
     /\ effect'.thrown = NoError) =>
        /\ files'["root"].kind = "file"
        /\ files'["root"].text.value.o["project"]["name"] = projectDir.name
        /\ InitResult(input', output') = CreatedResponse(projectDir.name)

\* C13: the init command and the shell command /init create .agentrc in the
\* project root only when it does not exist, and answer with the success
\* response that names the project; when it exists they answer
\* already-initialized and leave the files as they are; an existing .agentrc
\* stays, so init writes it at most once and every later init answers
\* already-initialized.
C13_InitCreatesOnce ==
    [][/\ InitKeepsExisting
       /\ InitCreatesMissing
       /\ files["root"].kind = "file" => files'["root"].kind = "file"]_vars

\* the init command answers already-initialized for an .agentrc that an
\* earlier call created for this project
C13_SecondInitRefused ==
    /\ input.hook = "commands.init"
    /\ startup.primary = JNull
    /\ output.title = alreadyInitialized.title
    /\ files["root"].kind = "file"
    /\ files["root"].text.value.o["project"]["name"] = projectDir.name

\* the event inp reports a change of a file whose path ends with ".agentrc"
AgentrcChanged(inp) ==
    /\ inp.hook = "event"
    /\ inp.tool = "file.changed"
    /\ EndsWith(inp.args["path"], T_agentrc)

\* on a change of .agentrc the configuration and the path become what the
\* locations hold at that moment
ReloadReplaces ==
    (calls' = calls + 1 /\ AgentrcChanged(input')) =>
        /\ \A i \in FirstLoading(files) :
              /\ agentrcConfig' = files[locations[i]].text.value
              /\ configPath' = locations[i]
        /\ FirstLoading(files) = {} => (agentrcConfig' = JNull /\ configPath' = "null")

\* any other event leaves both as they were
OtherEventsKeep ==
    (calls' = calls + 1 /\ input'.hook = "event" /\ ~AgentrcChanged(input')) =>
        /\ agentrcConfig' = agentrcConfig
        /\ configPath' = configPath

\* C14: a file.changed event for a path that ends with .agentrc replaces the
\* configuration and the primary path by what loadAgentrcConfig finds at that
\* moment, without merging the previous configuration or the legacy files
\* (both become null when no location loads); every other event leaves the
\* configuration and the path unchanged.
C14_ReloadReplacesWholesale == [][ReloadReplaces /\ OtherEventsKeep]_vars

\* the plugin started from .agentrc merged with legacy files; after the
\* reload the rules are those of .agentrc alone
C14_ReloadDropsLegacy ==
    /\ AgentrcChanged(input)
    /\ startup.primary = ConfigFull
    /\ startup.legacy.t = "object"
    /\ files["root"] = JsonFile(ConfigFull)
    /\ agentrcConfig = ConfigFull
    /\ configPath = "root"

\* the lines of a legacy file; none when it cannot be read
LinesOf(f) == IF f.kind = "file" THEN Split(f.text, "\n") ELSE <<>>

\* the lines of AGENTS.md, then those of CLAUDE.md
LegacyLines(lf) == LinesOf(lf["AGENTS.md"]) \o LinesOf(lf["CLAUDE.md"])

IsRuleLine(line) ==
    /\ Len(line) >= 2
    /\ line[1] = "-"
    /\ line[2] = " "
    /\ \E i \in DOMAIN line : line[i] = ":"

WithoutMarker(lines) == [i \in DOMAIN lines |-> SubSeq(lines[i], 3, Len(lines[i]))]

\* the rule lines in file and line order, each without its "- "
ExpectedRules(lf) == WithoutMarker(SelectSeq(LegacyLines(lf), IsRuleLine))

\* the line names npm, bun or yarn after a backtick and has a quoted part
IsCommandLine(line) ==
    /\ \/ Includes(line, <<Backtick>> \o T_npm \o <<" ">>)
       \/ Includes(line, <<Backtick>> \o T_bun \o <<" ">>)
       \/ Includes(line, <<Backtick>> \o T_yarn \o <<" ">>)
    /\ MatchBackticks(line) # NoMatch

QuotedParts(lines) == [i \in DOMAIN lines |-> MatchBackticks(lines[i])]

\* the quoted commands in file and line order
QuotedCommands(lf) == QuotedParts(SelectSeq(LegacyLines(lf), IsCommandLine))

Categories ==
    << [key |-> "test", word |-> T_test], [key |-> "build", word |-> T_build],
       [key |-> "lint", word |-> T_lint] >>

\* the positions in cmds of the commands of category c
OfCategory(cmds, c) == {i \in DOMAIN cmds : Includes(cmds[i], Categories[c].word)}

LegacyLoaded == fnCall.op = "loadLegacyConfigs" /\ fnCall.done

ExtractedAsGiven(lf, out) ==
    /\ out = JNull <=>
          /\ ExpectedRules(lf) = <<>>
          /\ \A c \in DOMAIN Categories : OfCategory(QuotedCommands(lf), c) = {}
    /\ out # JNull =>
          /\ out.o["rules"] = ExpectedRules(lf)
          /\ \A k \in DOMAIN out.o["commands"] :
                \E i \in DOMAIN QuotedCommands(lf) :
                    out.o["commands"][k] = QuotedCommands(lf)[i]

ExampleAsGiven(lf, out) ==
    lf = Legacy(TextFile(AgentsMdExample), NoFile, NoFile, NoFile) =>
        /\ mergeConfigs(JNull, out).o["rules"] = <<RuleFollow>>
        /\ mergeConfigs(JNull, out).o["commands"]["test"] = T_npm_test

FirstOfCategoryKept(lf, out) ==
    \A c \in DOMAIN Categories :
        \A i \in OfCategory(QuotedCommands(lf), c) :
            (\A j \in OfCategory(QuotedCommands(lf), c) : i <= j) =>
                out.o["commands"][Categories[c].key] = QuotedCommands(lf)[i]

\* C16: for each of test, build and lint the first quoted command with that
\* word, in file and line order, is the one under the commands key; a later
\* line or file with a command of the same category does not overwrite it.
C16_FirstCommandWins ==
    (LegacyLoaded /\ fnCall.out # JNull) => FirstOfCategoryKept(fnCall.in, fnCall.out)

NotifyReturned == fnCall.op = "notify" /\ fnCall.done

\* commands were run and every one of them failed
AllAttemptsFailed(in, out) ==
    /\ out.ran # <<>>
    /\ \A i \in DOMAIN out.ran : out.ran[i] \notin in.ok

LoggedPlainly(in, out) == out.logged = <<LogLine(in.title, in.message)>>

\* C17 as stated: notify never raises, on any platform, without a shell
\* function and whatever commands fail; and when every attempt failed it logs
\* one line with the title and the message.
C17_NotifyDegradesToLog ==
    NotifyReturned =>
        /\ ~fnCall.out.raised
        /\ AllAttemptsFailed(fnCall.in, fnCall.out) => LoggedPlainly(fnCall.in, fnCall.out)

\* C17: notify never raises, on any platform, without a shell function and
\* whatever commands fail; when every attempt failed on a platform other than
\* linux it logs one line with the title and the message; on linux it logs
\* nothing.
C17_NotifyNeverRaises ==
    NotifyReturned =>
        /\ ~fnCall.out.raised
        /\ (AllAttemptsFailed(fnCall.in, fnCall.out) /\ fnCall.in.platform # "linux")
              => LoggedPlainly(fnCall.in, fnCall.out)
        /\ (fnCall.in.shell /\ fnCall.in.platform = "linux") => fnCall.out.logged = <<>>

\* on linux every command failed, the final notify-send included: nothing is
\* raised and nothing is logged
C17_LinuxSilent ==
    /\ NotifyReturned
    /\ fnCall.in.shell
    /\ fnCall.in.platform = "linux"
    /\ fnCall.in.ok = {}
    /\ fnCall.out.ran[Len(fnCall.out.ran)] = NotifySendFinal
    /\ ~fnCall.out.raised
    /\ fnCall.out.logged = <<>>

LoadReturned == fnCall.op = "loadAgentrcConfig" /\ fnCall.done

\* the file at position i parses as JSON to a value that is not an object
ParsesToNonObject(fs, i) ==
    /\ fs[locations[i]].kind = "file"
    /\ JSONparse(fs[locations[i]].text).ok
    /\ JSONparse(fs[locations[i]].text).value.t \in {"number", "string", "boolean", "null"}

\* the loader read such a file and went on: it returned a later location's
\* configuration, or no configuration
SkippedNonObject(fs, out) ==
    \E i \in DOMAIN locations :
        /\ ParsesToNonObject(fs, i)
        /\ locations[i] \in out.consulted
        /\ \/ out.path = "null"
           \/ \E j \in DOMAIN locations : j > i /\ out.path = locations[j]

\* C18: a file that parses as JSON to a value that is not a non-null object
\* makes loading fail; it is not skipped in favour of a later location or of
\* no configuration.
C18_NonObjectNotSkipped ==
    LoadReturned => ~SkippedNonObject(fnCall.in, fnCall.out)

\* a memory command whose action is neither add nor remove: list, or the help
ListOrHelp(inp) ==
    /\ BeforeHook(inp)
    /\ MemoryCall(inp)
    /\ GivenAction(inp) \notin {T_add, T_remove}

\* config?.[k] || empty
PartOrEmpty(config, k, empty) ==
    IF config.t = "object" /\ Has(config.o, k) THEN config.o[k] ELSE empty

\* the rules, commands and project of config, empty where absent
SnapshotOf(config) ==
    JObj(("rules" :> PartOrEmpty(config, "rules", <<>>))
         @@ ("commands" :> PartOrEmpty(config, "commands", EmptyObject))
         @@ ("project" :> PartOrEmpty(config, "project", EmptyObject)))

\* tool.execute.before for list or help returns the snapshot or the help
\* text and changes neither the configuration nor the files
ListReturnsSnapshot ==
    (calls' = calls + 1 /\ ListOrHelp(input')) =>
        /\ effect'.thrown = NoError
        /\ effect'.wrote = {}
        /\ agentrcConfig' = agentrcConfig
        /\ configPath' = configPath
        /\ files' = files
        /\ GivenAction(input') = T_list =>
              MemoryResult(output').output = JSONstringify(SnapshotOf(agentrcConfig))
        /\ GivenAction(input') # T_list => MemoryResult(output') = memoryHelp

\* tool.execute.after then puts the title and the body on the output and
\* takes the result out of the arguments
AfterDeliversResult ==
    (ListOrHelp(input) /\ input'.hook = "tool.execute.after") =>
        /\ output'.title = MemoryResult(output).title
        /\ output'.output = MemoryResult(output).output
        /\ ~Has(output'.args, "__kuuzuki_memory_result")
        /\ agentrcConfig' = agentrcConfig
        /\ configPath' = configPath
        /\ files' = files

\* C19: memory list never fails: with or without a configuration it returns
\* the snapshot of the current rules, commands and project, empty where
\* absent; after tool.execute.before and tool.execute.after the title and the
\* body are on the output and the result marker is gone from the arguments;
\* list, and an unknown or absent action, which returns the help text, change
\* neither the configuration nor the .agentrc file.
C19_ListNeverFails == [][ListReturnsSnapshot /\ AfterDeliversResult]_vars

\* without any configuration a list has gone through both hooks: the output
\* carries the empty snapshot and the arguments no result
C19_EmptySnapshotDelivered ==
    /\ input.hook = "tool.execute.after"
    /\ MemoryCall(input)
    /\ GivenAction(input) = T_list
    /\ agentrcConfig = JNull
    /\ output.title = <<"<Project Rules>">>
    /\ output.output = JSONstringify(JObj(("rules" :> <<>>) @@ ("commands" :> EmptyObject)
                                          @@ ("project" :> EmptyObject)))
    /\ output.args = EmptyObject

AnalyzeReturned == fnCall.op = "analyzeProject" /\ fnCall.done

\* package.json is missing, is not JSON, or holds null, whose scripts cannot
\* be read
PackageJsonFails(pd) ==
    \/ pd.packageJson.kind # "file"
    \/ ~JSONparse(pd.packageJson.text).ok
    \/ JSONparse(pd.packageJson.text).value.t = "null"

NoOtherProject(pd) == pd.present \cap {"Cargo.toml", "go.mod", "requirements.txt"} = {}

GenericAnalysis ==
    [type |-> <<"<opencode-project>">>, language |-> T_javascript,
     framework |-> NullText, packageManager |-> T_npm, testFramework |-> NullText,
     buildTool |-> NullText, hasTypescript |-> FALSE, commands |-> EmptyObject,
     dependencies |-> <<>>, devDependencies |-> <<>>]

\* C20: analyzeProject returns a complete analysis for every project
\* directory; when package.json is missing, unreadable, not JSON or cannot be
\* processed, and none of Cargo.toml, go.mod and requirements.txt exists, the
\* analysis is the generic default: opencode-project, javascript, npm, no
\* framework, test framework or build tool, no commands, no dependencies.
C20_GenericDefaultOnFailure ==
    AnalyzeReturned =>
        /\ DOMAIN fnCall.out = DOMAIN GenericAnalysis
        /\ (PackageJsonFails(fnCall.in) /\ NoOtherProject(fnCall.in))
              => fnCall.out = GenericAnalysis

\* a memory command with the given action reaches tool.execute.before
MemoryStep(inp, action) ==
    /\ BeforeHook(inp)
    /\ MemoryCall(inp)
    /\ GivenAction(inp) = action

\* the error the precondition of the command inp fails with under config, or
\* NoError when its preconditions hold
PreconditionError(inp, config) ==
    IF GivenAction(inp) = T_add /\ ~Truthy(GivenArgs(inp), "rule")
    THEN <<"<Rule text required>">>
    ELSE IF GivenAction(inp) = T_add /\ config = JNull
    THEN <<"<No .agentrc config found>">>
    ELSE IF GivenAction(inp) = T_remove /\ ~Has(GivenArgs(inp), "ruleId")
    THEN <<"<Rule ID required>">>
    ELSE IF GivenAction(inp) = T_remove /\ ~HasRules(config)
    THEN <<"<No rules found>">>
    ELSE NoError

PreconditionsReported ==
    (/\ calls' = calls + 1
     /\ MemoryStep(input', T_add) \/ MemoryStep(input', T_remove)
     /\ PreconditionError(input', agentrcConfig) # NoError) =>
        /\ effect'.thrown = PreconditionError(input', agentrcConfig)
        /\ phase' = "running"
        /\ agentrcConfig' = agentrcConfig
        /\ files' = files
        /\ effect'.wrote = {}
        /\ output'.args = input'.args

\* C21: memory add throws "Rule text required" when no rule text is given,
\* whether or not there is a configuration, and "No .agentrc config found"
\* when there is none; memory remove throws "Rule ID required" when ruleId is
\* absent and "No rules found" when the configuration has no rules key. Each
\* error leaves tool.execute.before as thrown, the rules and the file stay as
\* they were and the arguments are not replaced by a result.
C21_MemoryPreconditions == [][PreconditionsReported]_vars

\* an add without rule text and without configuration: the missing text is
\* what is reported
C21_MissingRuleBeforeNoConfig ==
    /\ MemoryStep(input, T_add)
    /\ ~Truthy(GivenArgs(input), "rule")
    /\ agentrcConfig = JNull
    /\ effect.thrown = <<"<Rule text required>">>
    /\ output.args = input.args

HookReturned == fnCall.op = "toolExecuteBefore" /\ fnCall.done

WritesAgentsMd(inv) ==
    /\ inv.tool = "write"
    /\ Has(inv.args, "filePath")
    /\ EndsWith(inv.args["filePath"], T_AGENTS_md)

RunsInit(inv) == inv.tool = "bash" /\ inv.args["command"] = T_slash_init

\* none of command mapping, the .env check and the restricted-path check left
\* a trace
NoLaterStep(inv, out) ==
    /\ Has(out.args, "command") => out.args["command"] = inv.args["command"]
    /\ out.thrown # SecurityError
    /\ \A i \in DOMAIN out.logged : out.logged[i] \notin {"warning", "config"}

\* the step that applies has handled the invocation
HandledByStep(inv, out) ==
    /\ (WritesAgentsMd(inv) /\ out.thrown = NoError) =>
          out.args["content"] = inv.args["content"] \o AgentsMdMarker
    /\ (RunsInit(inv) /\ out.thrown = NoError) =>
          DOMAIN out.args = {"__kuuzuki_init_result"}
    /\ (MemoryCall(inv) /\ out.thrown = NoError) =>
          DOMAIN out.args = {"__kuuzuki_memory_result"}
    /\ out.thrown # NoError => out.args = inv.args

\* C22: a write of a path ending in AGENTS.md, the shell command /init, and a
\* memory command are handled by their own step, and tool.execute.before then
\* returns without command mapping, the .env check or the restricted-path
\* check: memory action=add rule=lint is a memory command and is not rewritten
\* to commands.lint, and a write of an AGENTS.md under a restricted path gets
\* the marker appended and no warning.
C22_InterceptsComeFirst ==
    (/\ HookReturned
     /\ WritesAgentsMd(fnCall.in.inv) \/ RunsInit(fnCall.in.inv) \/ MemoryCall(fnCall.in.inv))
        => /\ NoLaterStep(fnCall.in.inv, fnCall.out)
           /\ HandledByStep(fnCall.in.inv, fnCall.out)

\* dist/AGENTS.md written under restrictedPaths ["dist/*"]: the marker is
\* appended and no warning is logged
C22_RestrictedAgentsMdUnwarned ==
    /\ HookReturned
    /\ fnCall.in.inv = File("write", T_dist_agents)
    /\ fnCall.in.state.config = ConfigChain
    /\ ConfigChain.o["security"]["restrictedPaths"] = <<T_dist_glob>>
    /\ fnCall.out.args["content"] = <<"<content>">> \o AgentsMdMarker
    /\ \A i \in DOMAIN fnCall.out.logged : fnCall.out.logged[i] # "warning"

\* config.project?.[k]
ProjectPart(config, k) ==
    IF Has(config.o, "project") /\ Has(config.o["project"], k)
    THEN config.o["project"][k] ELSE Undefined

\* C23: after every tool invocation made while there is a configuration,
\* memory and init commands included, tool.execute.after has attached the
\* metadata: the project name, the project type and the number of rules the
\* configuration has at that moment.
C23_MetadataAlwaysAttached ==
    (input.hook = "tool.execute.after" /\ agentrcConfig.t = "object") =>
        /\ Has(output.metadata, "kuuzuki")
        /\ output.metadata["kuuzuki"].project = ProjectPart(agentrcConfig, "name")
        /\ output.metadata["kuuzuki"].projectType = ProjectPart(agentrcConfig, "type")
        /\ output.metadata["kuuzuki"].rulesCount = Len(RulesOf(agentrcConfig))

\* a memory add or remove whose preconditions hold, with a primary path and a
\* write that succeeds
PersistingCall(in) ==
    /\ MemoryCall(in.inv)
    /\ GivenAction(in.inv) \in {T_add, T_remove}
    /\ PreconditionError(in.inv, in.state.config) = NoError
    /\ in.state.path # "null"
    /\ in.writeOk

\* the file holds the configuration that was in memory, with its rules
\* changed, whatever the file held before
WrittenFromMemory(in, out) ==
    /\ out.thrown = NoError
    /\ out.files[in.state.path] = TextFile(JSONstringify(out.config))
    /\ WithoutKey(out.config.o, "rules") = WithoutKey(in.state.config.o, "rules")
    /\ GivenAction(in.inv) = T_add =>
          out.config.o["rules"]
              = Append(RulesOf(in.state.config), GivenArgs(in.inv)["rule"])
    /\ GivenAction(in.inv) = T_remove =>
          out.config.o["rules"]
              = Without(RulesOf(in.state.config), IndexOfId(GivenArgs(in.inv)["ruleId"]))

\* C24: a memory add or remove overwrites the primary file with the
\* configuration held in memory, without reading the file: what was changed on
\* disk since the last load is gone after the write.
C24_LastWriterWins ==
    (HookReturned /\ PersistingCall(fnCall.in)) => WrittenFromMemory(fnCall.in, fnCall.out)

\* .agentrc was replaced on disk after the load; after the add it holds the
\* loaded configuration plus the new rule and nothing of the replacement
C24_DiskEditLost ==
    /\ HookReturned
    /\ PersistingCall(fnCall.in)
    /\ fnCall.in.state.config = ConfigFull
    /\ fnCall.in.state.fs["root"] = JsonFile(ConfigChain)
    /\ GivenAction(fnCall.in.inv) = T_add
    /\ fnCall.out.files["root"]
          = JsonFile(JObj(("rules" :> <<RuleA, T_lint>>) @@ ConfigFull.o))

\* the primary path is the first location that loads
PrimaryStillFirst(fs, path) == \E i \in FirstLoading(fs) : locations[i] = path

\* the invocation just completed was a memory add or remove that succeeded
JustPersisted(inp, out, path) ==
    /\ inp.hook = "tool.execute.after"
    /\ MemoryCall(inp)
    /\ out.title \in {<<"<Rule Added>">>, <<"<Rule Removed>">>}
    /\ path # "null"

\* a reload right after a successful add or remove keeps the rules
ReloadAfterPersistKeepsRules ==
    (/\ calls' = calls + 1
     /\ AgentrcChanged(input')
     /\ JustPersisted(input, output, configPath)
     /\ PrimaryStillFirst(files, configPath)) =>
        RulesOf(agentrcConfig') = RulesOf(agentrcConfig)

\* a reload while the primary file still holds what was loaded at the start
\* leaves the primary's rules alone
ReloadUnpersistedDropsLegacy ==
    (/\ calls' = calls + 1
     /\ AgentrcChanged(input')
     /\ configPath # "null"
     /\ files[configPath] = JsonFile(startup.primary)
     /\ PrimaryStillFirst(files, configPath)) =>
        RulesOf(agentrcConfig') = RulesOf(startup.primary)

\* C25: with a primary path, a successful memory add or remove writes the
\* whole configuration held in memory, the rules and commands taken from
\* legacy files included; a reload right after it, the primary path still
\* being the first location that loads, gives the rules that were in memory
\* before the reload, while a reload with nothing persisted before it gives
\* the rules of the primary file alone.
C25_PersistKeepsLegacyRules ==
    [][ReloadAfterPersistKeepsRules /\ ReloadUnpersistedDropsLegacy]_vars

\* .agentrc and legacy files at the start, a rule added, then the reload: the
\* legacy rule and the added rule are both still there
C25_LegacyRuleSurvivesReload ==
    /\ AgentrcChanged(input)
    /\ startup.primary = ConfigFull
    /\ startup.legacy.t = "object"
    /\ Contains(RulesOf(agentrcConfig), RuleFollow)
    /\ Contains(RulesOf(agentrcConfig), RuleX)
    /\ files["root"] = JsonFile(agentrcConfig)

\* a step that creates <root>/.agentrc changes neither agentrcConfig nor
\* configPath
CreationKeepsConfig ==
    (files["root"].kind # "file" /\ files'["root"].kind = "file") =>
        /\ agentrcConfig' = agentrcConfig
        /\ configPath' = configPath

\* once started without a configuration, only a reload gives one
OnlyReloadGivesConfig ==
    (phase # "boot" /\ agentrcConfig = JNull /\ agentrcConfig' # JNull) =>
        /\ calls' = calls + 1
        /\ AgentrcChanged(input')

\* without a configuration an add fails, whether or not .agentrc exists
AddWithoutConfigFails ==
    (/\ calls' = calls + 1
     /\ MemoryStep(input', T_add)
     /\ Truthy(GivenArgs(input'), "rule")
     /\ agentrcConfig = JNull) =>
        /\ effect'.thrown = <<"<No .agentrc config found>">>
        /\ agentrcConfig' = JNull

\* C26: commands.init, the shell /init and the AGENTS.md write, when they
\* create <root>/.agentrc, leave agentrcConfig and configPath as they were; so
\* in a session started without any configuration a memory add after a
\* successful init still fails with "No .agentrc config found", and succeeds
\* only once a file.changed event for .agentrc has been handled.
C26_InitLeavesConfigUnloaded ==
    [][CreationKeepsConfig /\ OnlyReloadGivesConfig /\ AddWithoutConfigFails]_vars

\* started without configuration, .agentrc created since: the add has failed
C26_AddFailsAfterInit ==
    /\ startup.primary = JNull
    /\ startup.legacy = JNull
    /\ files["root"].kind = "file"
    /\ MemoryStep(input, T_add)
    /\ Truthy(GivenArgs(input), "rule")
    /\ effect.thrown = <<"<No .agentrc config found>">>
    /\ agentrcConfig = JNull

\* the write of a memory add or remove has failed
WriteFailedIn(inp, eff) ==
    /\ MemoryStep(inp, T_add) \/ MemoryStep(inp, T_remove)
    /\ eff.thrown = WriteFailed

\* the failure is thrown, the file is as before, the rules are changed
FailedWriteKeepsChange ==
    (calls' = calls + 1 /\ WriteFailedIn(input', effect')) =>
        /\ phase' = "running"
        /\ output'.args = input'.args
        /\ files' = files
        /\ MemoryStep(input', T_add) =>
              RulesOf(agentrcConfig')
                  = Append(RulesOf(agentrcConfig), GivenArgs(input')["rule"])
        /\ (/\ MemoryStep(input', T_remove)
            /\ IndexGiven(input') \in 0..(Len(RulesOf(agentrcConfig)) - 1)) =>
              RulesOf(agentrcConfig') = Without(RulesOf(agentrcConfig), IndexGiven(input'))
        /\ (/\ files[configPath] = JsonFile(agentrcConfig)
            /\ \/ MemoryStep(input', T_add)
               \/ IndexGiven(input') \in 0..(Len(RulesOf(agentrcConfig)) - 1)) =>
              files'[configPath] # JsonFile(agentrcConfig')

\* what is neither a memory add or remove nor a reload changes neither the
\* configuration nor the primary file
OthersKeepDifference ==
    (/\ phase # "boot"
     /\ configPath # "null"
     /\ ~AgentrcChanged(input')
     /\ ~(MemoryStep(input', T_add) \/ MemoryStep(input', T_remove))) =>
        /\ agentrcConfig' = agentrcConfig
        /\ files'[configPath] = files[configPath]

\* C27: when the write of the primary file fails in a memory add or remove,
\* the failure is thrown out of the invocation and the rules in memory are not
\* rolled back: after a failed add they end with the new rule, after a failed
\* remove the element is gone; configuration and file then differ until the
\* next add, remove or reload.
C27_FailedWriteNotRolledBack == [][FailedWriteKeepsChange /\ OthersKeepDifference]_vars

\* a failed add: the rule is in memory and not in the file
C27_RuleInMemoryOnly ==
    /\ WriteFailedIn(input, effect)
    /\ MemoryStep(input, T_add)
    /\ RulesOf(agentrcConfig)[Len(RulesOf(agentrcConfig))] = GivenArgs(input)["rule"]
    /\ files[configPath] # JsonFile(agentrcConfig)
    /\ files[configPath] = JsonFile(startup.primary)

\* the text, whatever its letter case, contains "protect .env"
ProtectsEnvText(rule) == Includes(ToLowerCase(rule), T_protect_env)

\* the positions of the rules of config that protect .env files
ProtectingRules(config) ==
    {i \in DOMAIN RulesOf(config) : ProtectsEnvText(RulesOf(config)[i])}

\* sensitiveFiles of config has the entry "*.env"
HasStarEnv(config) ==
    /\ config.t = "object"
    /\ Has(config.o, "security")
    /\ Has(config.o["security"], "sensitiveFiles")
    /\ Contains(config.o["security"]["sensitiveFiles"], T_star_env)

\* a read of a path that contains ".env" reaches tool.execute.before
EnvReadStep(inp) ==
    /\ BeforeHook(inp)
    /\ inp.tool = "read"
    /\ Includes(inp.args["filePath"], T_dot_env)

\* without "*.env" the read is denied exactly when a rule in effect protects
ReadDecidedByCurrentRules ==
    (calls' = calls + 1 /\ EnvReadStep(input') /\ ~HasStarEnv(agentrcConfig)) =>
        /\ ProtectingRules(agentrcConfig) # {} => effect'.thrown = SecurityError
        /\ ProtectingRules(agentrcConfig) = {} => effect'.thrown = NoError

\* a protecting rule added through the memory tool is in effect afterwards
AddedRuleProtects ==
    (/\ calls' = calls + 1
     /\ AddSucceeded(input', effect')
     /\ input'.tool = "memory"
     /\ ProtectsEnvText(GivenArgs(input')["rule"])) =>
        ProtectingRules(agentrcConfig') # {}

\* once the only protecting rule is removed none is in effect
RemovedRuleProtectsNoMore ==
    (/\ calls' = calls + 1
     /\ RemoveGiven(input')
     /\ effect'.thrown = NoError
     /\ ProtectingRules(agentrcConfig) = {IndexGiven(input') + 1}) =>
        ProtectingRules(agentrcConfig') = {}

\* C28: the .env read decision uses the rules in effect at the moment of the
\* invocation: without the sensitiveFiles entry "*.env", once a rule whose
\* text contains "protect .env" in any letter case has been added through the
\* arguments of the memory tool every read of a path containing ".env" is
\* denied, and once that rule has been removed and no other such rule remains
\* such reads are allowed again.
C28_CurrentRulesDecide ==
    [][ReadDecidedByCurrentRules /\ AddedRuleProtects /\ RemovedRuleProtectsNoMore]_vars

\* "Protect .ENV" was added in this session, sensitiveFiles has no "*.env":
\* the read of .env is denied
C28_DeniedAfterAdd ==
    /\ EnvReadStep(input)
    /\ ~HasStarEnv(agentrcConfig)
    /\ ProtectingRules(startup.primary) = {}
    /\ ProtectingRules(startup.legacy) = {}
    /\ Contains(RulesOf(agentrcConfig), RuleProtect)
    /\ effect.thrown = SecurityError

\* the one invocation that is denied: a read of a path containing ".env"
\* under a configuration with the entry "*.env" or a protecting rule
DeniedRead(inv, config) ==
    /\ inv.tool = "read"
    /\ Includes(inv.args["filePath"], T_dot_env)
    /\ HasStarEnv(config) \/ ProtectingRules(config) # {}

MappingKeys == {"test", "build", "dev", "lint"}

TestOf(k, command) ==
    CASE k = "test" -> command = T_npm_test
      [] k = "build" -> command = T_npm_run_build
      [] k = "dev" -> command = T_npm_run_dev
      [] k = "lint" -> Includes(command, T_lint)

\* the configured categories whose test holds of the command
Determining(command, config) ==
    {k \in MappingKeys : TestOf(k, command) /\ Configured(config, k)}

\* a returned shell invocation of the command mapping
Mapped == fnCall.op = "mapCommand" /\ fnCall.done

\* C30: within one invocation every mapping test is made against the original
\* command: at most one configured category has its test hold of the original
\* command, the result is that category's replacement (the original command
\* when there is none), and the replacement is not mapped again, even when a
\* configured category's test holds of the replacement: with commands.test =
\* npm run build and commands.build = make, npm test becomes npm run build and
\* not make, and a replacement that contains lint is not replaced by
\* commands.lint.
C30_OneMappingOfOriginal ==
    Mapped =>
        /\ Cardinality(Determining(fnCall.in.command, fnCall.in.config)) <= 1
        /\ \A k \in Determining(fnCall.in.command, fnCall.in.config) :
               fnCall.out.args["command"] = fnCall.in.config.o["commands"][k]
        /\ Determining(fnCall.in.command, fnCall.in.config) = {} =>
               fnCall.out.args["command"] = fnCall.in.command
        /\ (fnCall.in.command = T_npm_test /\ fnCall.in.config = ConfigChain) =>
               /\ fnCall.out.args["command"] = T_npm_run_build
               /\ fnCall.out.args["command"] # T_make
        /\ (fnCall.in.command = T_npm_test /\ fnCall.in.config = ConfigTestIsLint) =>
               fnCall.out.args["command"] = T_npm_run_lint

\* npm test became npm run build although commands.build is configured and its
\* test holds of npm run build
C30_TestNotMappedOnToBuild ==
    /\ Mapped
    /\ fnCall.in.command = T_npm_test
    /\ fnCall.in.config = ConfigChain
    /\ fnCall.out.args["command"] = T_npm_run_build
    /\ Determining(fnCall.out.args["command"], fnCall.in.config) = {"build"}

\* npm test became a command that contains lint although commands.lint is
\* configured
C30_LintReplacementKept ==
    /\ Mapped
    /\ fnCall.in.config = ConfigTestIsLint
    /\ fnCall.in.command = T_npm_test
    /\ fnCall.out.args["command"] = T_npm_run_lint
    /\ Determining(fnCall.out.args["command"], fnCall.in.config) = {"lint"}

=============================================================================
